---------------------------- MODULE Spec2Model ----------------------------
(***************************************************************************)
(* A model of langchain-glean: the error classifier (error_handling.py),   *)
(* the search tool (tools/search.py), the chat model (chat_models/chat.py) *)
(* and the credential resolution of the components.                        *)
(*                                                                         *)
(* Conventions.  Python's None is the string None; a Python string that    *)
(* the code only compares or copies is a TLA+ string; a Python string the  *)
(* code searches, lower-cases or builds is a sequence of pieces; an        *)
(* optional integer is a set with at most one element.                     *)
(*                                                                         *)
(* Each component has its own specification (SpecErr, SpecTool, SpecBuild, *)
(* SpecChat, SpecCred, ...) over the one set of variables; each leaves the *)
(* variables of the other components at their initial values.              *)
(***************************************************************************)
EXTENDS Integers, Sequences, FiniteSets, TLC

VARIABLES
    \* ---- error classifier
    errPc,      \* "raised": an exception was caught; "converted": classified
    errIn,      \* the caught exception
    errCtx,     \* the context argument of convert_glean_error
    errOut,     \* the GleanIntegrationError returned
    \* ---- search tool
    toolArg,    \* the object the caller passes as query (the caller keeps it)
    toolKind,   \* the entry point of the last call: "_run" or "_arun"
    toolEnv,    \* what the retriever did in the last call
    toolOut,    \* how the last call ended: the string returned, or raised
    toolSeen,   \* the retriever invocations so far: <<query text, keywords>>
    \* ---- chat model (one ChatGlean instance)
    chat_id,    \* self.chat_id, the held session id
    pc,         \* "idle", "awaiting" (remote call in flight), "yielded"
                \* (generator suspended at yield), "done"
    call,       \* the entry point called and its arguments
    request,    \* params, the ChatRequest of the call in flight
    response,   \* what the remote call gave: a response, a body, a failure
    pos,        \* the stream loop's place: <<line, message, fragment>>
    chunks,     \* the chunks the consumer has received in this call
    result,     \* how the call ended
    callbacks,  \* run_manager: on_llm_error and on_llm_new_token counts
    lastGen,    \* the chat id carried by the response of the call before
                \* this one, when that was a successful non-streaming call
    \* ---- construction of a component
    credCls,    \* the class constructed
    credArgs,   \* the keyword arguments of the constructor
    credEnv,    \* os.environ
    credValues, \* what the "before" validator returned or raised
    credOut,    \* how the constructor ended
    \* ---- one call of a function or entry point that keeps no state
    fnName,     \* the function or entry point called
    fnArgs,     \* its arguments (and the fields of self it reads)
    fnRemote,   \* what the remote call of this invocation does
    fnOut,      \* how the call ended: a value returned or an exception
    fnReported, \* the error callback invocations of this call
    \* ---- calls that run at the same time on one ChatGlean instance or
    \* ---- retriever
    tasks       \* per call: its entry point, its position, what the remote
                \* call gave it and what it has yielded or returned

errVars == <<errPc, errIn, errCtx, errOut>>
toolVars == <<toolArg, toolKind, toolEnv, toolOut, toolSeen>>
chatVars == <<chat_id, pc, call, request, response, pos, chunks, result,
              callbacks, lastGen>>
credVars == <<credCls, credArgs, credEnv, credValues, credOut>>
fnVars == <<fnName, fnArgs, fnRemote, fnOut, fnReported>>
taskVars == <<tasks>>

vars == <<errPc, errIn, errCtx, errOut,
          toolArg, toolKind, toolEnv, toolOut, toolSeen,
          chat_id, pc, call, request, response, pos, chunks, result,
          callbacks, lastGen,
          credCls, credArgs, credEnv, credValues, credOut,
          fnName, fnArgs, fnRemote, fnOut, fnReported,
          tasks>>

None == "None"

\* Python truthiness of an optional string.
Truthy(s) == s # None /\ s # ""

\* Sequences over S of length at most n.
SeqUpTo(S, n) == UNION {[1..m -> S] : m \in 0..n}

-----------------------------------------------------------------------------
(***************************************************************************)
(* error_handling.py: convert_glean_error                                  *)
(***************************************************************************)

\* The longest exception message, in pieces.
MaxWords == 2

\* The pieces an exception message is made of, as the vendor writes them.
Words == {"Unauthorized", "authentication", "Not Found", "RATE LIMIT",
          "too many requests", "Timeout", "server error"}

\* str.lower() of a piece.
Lower(w) ==
    CASE w = "Unauthorized" -> "unauthorized"
      [] w = "Not Found"    -> "not found"
      [] w = "RATE LIMIT"   -> "rate limit"
      [] w = "Timeout"      -> "timeout"
      [] OTHER              -> w

\* str(error).lower()
LowerStr(msg) == [i \in DOMAIN msg |-> Lower(msg[i])]

\* needle in text
Contains(text, needle) == \E i \in DOMAIN text : text[i] = needle

StatusCodes == {401, 404, 429, 500}

\* The exceptions a caller can hand to convert_glean_error: a vendor error
\* (errors.GleanError) or any other exception, each with an optional
\* status_code, error_type and raw_response attribute and a message.
Exceptions ==
    [glean : BOOLEAN,
     status : {{}} \cup {{c} : c \in StatusCodes},
     etype : {None, "BAD_REQUEST"},
     raw : BOOLEAN,
     msg : SeqUpTo(Words, MaxWords)]

Contexts == {"", "search"}

\* f"{prefix}{f' in {context}' if context else ''}: {str(error)}"
ErrorMessage(prefix, context, msg) ==
    <<prefix>> \o (IF context # "" THEN <<" in ", context>> ELSE <<>>)
               \o <<": ">> \o msg

GleanAPIErrorOf(kind, message, error, status, etype, details) ==
    [kind |-> kind, message |-> message, original_error |-> error,
     status_code |-> status, error_type |-> etype, details |-> details]

\* The classifier with the not-found rule tried before the authentication
\* rule.
convert_glean_error_notfound_first(error, context) ==
    IF error.glean
    THEN LET message == ErrorMessage("Glean API error", context, error.msg)
             details == IF error.raw THEN {"raw_response"} ELSE {}
             status_code == error.status
             error_type == error.etype
             lowered == LowerStr(error.msg)
             kind ==
                IF 404 \in status_code \/ Contains(lowered, "not found")
                THEN "GleanNotFoundError"
                ELSE IF 401 \in status_code \/ Contains(lowered, "authentication")
                        \/ Contains(lowered, "unauthorized")
                THEN "GleanAuthenticationError"
                ELSE IF 429 \in status_code \/ Contains(lowered, "rate limit")
                        \/ Contains(lowered, "too many requests")
                THEN "GleanRateLimitError"
                ELSE IF Contains(lowered, "timeout")
                THEN "GleanTimeoutError"
                ELSE "GleanAPIError"
         IN  GleanAPIErrorOf(kind, message, error, status_code, error_type, details)
    ELSE GleanAPIErrorOf("GleanAPIError",
                         ErrorMessage("Unexpected error", context, error.msg),
                         error, {}, None, {})

\* The classifier without the isinstance test: every exception is classified
\* by its status and message.
convert_glean_error_no_isinstance(error, context) ==
    LET message == ErrorMessage(IF error.glean THEN "Glean API error"
                                ELSE "Unexpected error", context, error.msg)
        lowered == LowerStr(error.msg)
        kind ==
            IF 401 \in error.status \/ Contains(lowered, "authentication")
                \/ Contains(lowered, "unauthorized")
            THEN "GleanAuthenticationError"
            ELSE IF 404 \in error.status \/ Contains(lowered, "not found")
            THEN "GleanNotFoundError"
            ELSE IF 429 \in error.status \/ Contains(lowered, "rate limit")
                    \/ Contains(lowered, "too many requests")
            THEN "GleanRateLimitError"
            ELSE IF Contains(lowered, "timeout")
            THEN "GleanTimeoutError"
            ELSE "GleanAPIError"
    IN  GleanAPIErrorOf(kind, message, error, error.status, error.etype,
                        IF error.raw THEN {"raw_response"} ELSE {})

convert_glean_error(error, context) ==
    IF error.glean
    THEN LET message == ErrorMessage("Glean API error", context, error.msg)
             details == IF error.raw THEN {"raw_response"} ELSE {}
             status_code == error.status
             error_type == error.etype
             lowered == LowerStr(error.msg)
             kind ==
                IF 401 \in status_code \/ Contains(lowered, "authentication")
                    \/ Contains(lowered, "unauthorized")
                THEN "GleanAuthenticationError"
                ELSE IF 404 \in status_code \/ Contains(lowered, "not found")
                THEN "GleanNotFoundError"
                ELSE IF 429 \in status_code \/ Contains(lowered, "rate limit")
                        \/ Contains(lowered, "too many requests")
                THEN "GleanRateLimitError"
                ELSE IF Contains(lowered, "timeout")
                THEN "GleanTimeoutError"
                ELSE "GleanAPIError"
         IN  GleanAPIErrorOf(kind, message, error, status_code, error_type, details)
    ELSE GleanAPIErrorOf("GleanAPIError",
                         ErrorMessage("Unexpected error", context, error.msg),
                         error, {}, None, {})

NoError == [kind |-> None]

ErrInit ==
    /\ errPc = "raised"
    /\ errIn \in Exceptions
    /\ errCtx \in Contexts
    /\ errOut = NoError

\* A caller catches the exception and classifies it.
ConvertGleanError ==
    /\ errPc = "raised"
    /\ errOut' = convert_glean_error(errIn, errCtx)
    /\ errPc' = "converted"
    /\ UNCHANGED <<errIn, errCtx>>
    /\ UNCHANGED <<toolVars, chatVars, credVars, fnVars, taskVars>>

ErrNext == ConvertGleanError

-----------------------------------------------------------------------------
(***************************************************************************)
(* tools/search.py: GleanSearchTool._run and _arun                         *)
(***************************************************************************)

\* The most Documents a retriever call returns, and the most calls a caller
\* makes with one argument object.
MaxDocs == 2
MaxToolCalls == 2

\* A dict is a function from its keys to its values.
Dict(keys, f) == [k \in keys |-> f[k]]
EmptyDict == [k \in {} |-> None]
DictPop(d, key) == [k \in (DOMAIN d) \ {key} |-> d[k]]

ParamValues ==
    [query |-> {"q1", ""}, page_size |-> {"20"}, datasources |-> {"slack"}]

\* What a caller passes: a string, a dict of search parameters (with or
\* without the key "query"), or a malformed value.
DictArgs ==
    {d \in UNION {[ks -> {"q1", "", "20", "slack"}] : ks \in SUBSET DOMAIN ParamValues} :
        \A k \in DOMAIN d : d[k] \in ParamValues[k]}

ToolArgs ==
    {[type |-> "str", value |-> q] : q \in {"q1", ""}}
    \cup {[type |-> "dict", value |-> d] : d \in DictArgs}
    \cup {[type |-> "list", value |-> l] : l \in {<<>>, <<"query">>}}
    \cup {[type |-> "int", value |-> None], [type |-> "NoneType", value |-> None]}

\* The Documents of a retriever: metadata with or without title and url.
Docs ==
    {[metadata |-> [title |-> "T1", url |-> "U1"], page_content |-> "body one"],
     [metadata |-> [url |-> "U2"], page_content |-> "body two"],
     [metadata |-> [title |-> "T3"], page_content |-> ""]}

ExceptionTexts == {"Test error", "connection reset"}

\* What the retriever does when called: returns Documents or raises an
\* Exception.
RetrieverOutcomes ==
    {[raises |-> FALSE, docs |-> ds, exc |-> None] : ds \in SeqUpTo(Docs, MaxDocs)}
    \cup {[raises |-> TRUE, docs |-> <<>>, exc |-> m] : m \in ExceptionTexts}

NotCalled == [raises |-> FALSE, docs |-> <<>>, exc |-> "not called"]

\* str(i) for the result numbers.
IntStr(i) == <<"0", "1", "2", "3", "4", "5", "6", "7", "8", "9">>[i + 1]

\* dict.get(key, default)
Get(d, key, default) == IF key \in DOMAIN d THEN d[key] ELSE default

\* ResultBlock, but the results are numbered from 0.
ResultBlock_from_zero(i, doc) ==
    <<"Result ", IntStr(i - 1), ":\n",
      "Title: ", Get(doc.metadata, "title", "No title"), "\n",
      "URL: ", Get(doc.metadata, "url", "No URL"), "\n",
      "Content: ", doc.page_content, "\n">>

\* The text block of the i-th Document (search.py:49-52).
ResultBlock(i, doc) ==
    <<"Result ", IntStr(i), ":\n",
      "Title: ", Get(doc.metadata, "title", "No title"), "\n",
      "URL: ", Get(doc.metadata, "url", "No URL"), "\n",
      "Content: ", doc.page_content, "\n">>

\* "\n\n".join(results)
RECURSIVE JoinBlocks(_, _)
JoinBlocks(docs, i) ==
    IF i > Len(docs) THEN <<>>
    ELSE (IF i > 1 THEN <<"\n\n">> ELSE <<>>) \o ResultBlock(i, docs[i])
            \o JoinBlocks(docs, i + 1)

Returned(text) == [raised |-> FALSE, text |-> text]
Propagated(exc) == [raised |-> TRUE, text |-> <<exc>>]

\* Whether the body of the try block reaches the retriever call for this
\* argument (search.py:32-42).
ReachesRetriever(arg) ==
    \/ arg.type = "str"
    \/ arg.type = "dict" /\ "query" \in DOMAIN arg.value

\* The call without the try/except around it: an exception of the retriever
\* reaches the caller.
GleanSearchTool_run_no_except(arg, env) ==
    IF arg.type \in {"int", "NoneType"}
    THEN [out |-> Returned(<<"Error searching Glean: ", "argument is not iterable">>),
          arg |-> arg, seen |-> <<>>]
    ELSE IF arg.type = "list"
    THEN IF \E i \in DOMAIN arg.value : arg.value[i] = "query"
         THEN [out |-> Returned(<<"Error searching Glean: ",
                                  "'str' object cannot be interpreted as an integer">>),
               arg |-> arg, seen |-> <<>>]
         ELSE [out |-> Returned(<<"Error: Search query is required">>),
               arg |-> arg, seen |-> <<>>]
    ELSE LET search_params == IF arg.type = "str"
                              THEN [query |-> arg.value] ELSE arg.value
         IN  IF "query" \notin DOMAIN search_params
             THEN [out |-> Returned(<<"Error: Search query is required">>),
                   arg |-> arg, seen |-> <<>>]
             ELSE LET query_text == search_params["query"]
                      popped == DictPop(search_params, "query")
                      after == IF arg.type = "str" THEN arg
                               ELSE [arg EXCEPT !.value = popped]
                      seen == << <<query_text, popped>> >>
                  IN  IF env.raises
                      THEN [out |-> Propagated(env.exc), arg |-> after, seen |-> seen]
                      ELSE IF env.docs = <<>>
                      THEN [out |-> Returned(<<"No results found.">>),
                            arg |-> after, seen |-> seen]
                      ELSE [out |-> Returned(JoinBlocks(env.docs, 1)),
                            arg |-> after, seen |-> seen]

\* _run(query) and _arun(query), which differ only in awaiting the
\* retriever: the string returned, the caller's argument object afterwards,
\* and the retriever invocation made.
GleanSearchTool_run(arg, env) ==
    IF arg.type \in {"int", "NoneType"}
    THEN \* "query" not in search_params raises TypeError
         [out |-> Returned(<<"Error searching Glean: ", "argument is not iterable">>),
          arg |-> arg, seen |-> <<>>]
    ELSE IF arg.type = "list"
    THEN IF \E i \in DOMAIN arg.value : arg.value[i] = "query"
         THEN \* list.pop("query") raises TypeError
              [out |-> Returned(<<"Error searching Glean: ",
                                  "'str' object cannot be interpreted as an integer">>),
               arg |-> arg, seen |-> <<>>]
         ELSE [out |-> Returned(<<"Error: Search query is required">>),
               arg |-> arg, seen |-> <<>>]
    ELSE LET search_params == IF arg.type = "str"
                              THEN [query |-> arg.value] ELSE arg.value
         IN  IF "query" \notin DOMAIN search_params
             THEN [out |-> Returned(<<"Error: Search query is required">>),
                   arg |-> arg, seen |-> <<>>]
             ELSE LET query_text == search_params["query"]
                      \* search_params is the caller's dict itself
                      popped == DictPop(search_params, "query")
                      after == IF arg.type = "str" THEN arg
                               ELSE [arg EXCEPT !.value = popped]
                      seen == << <<query_text, popped>> >>
                  IN  IF env.raises
                      THEN [out |-> Returned(<<"Error searching Glean: ", env.exc>>),
                            arg |-> after, seen |-> seen]
                      ELSE IF env.docs = <<>>
                      THEN [out |-> Returned(<<"No results found.">>),
                            arg |-> after, seen |-> seen]
                      ELSE [out |-> Returned(JoinBlocks(env.docs, 1)),
                            arg |-> after, seen |-> seen]

NoOutput == [raised |-> FALSE, text |-> <<>>]

ToolInit ==
    /\ toolArg \in ToolArgs
    /\ toolKind = None
    /\ toolEnv = NotCalled
    /\ toolOut = NoOutput
    /\ toolSeen = <<>>

\* One call of the tool with the caller's argument object.
ToolCall(kind) ==
    /\ Len(toolSeen) < MaxToolCalls
    /\ \E env \in (IF ReachesRetriever(toolArg) THEN RetrieverOutcomes
                   ELSE {NotCalled}) :
          LET r == GleanSearchTool_run(toolArg, env)
          IN  /\ toolEnv' = env
              /\ toolOut' = r.out
              /\ toolArg' = r.arg
              /\ toolSeen' = toolSeen \o r.seen
    /\ toolKind' = kind
    /\ UNCHANGED <<errVars, chatVars, credVars, fnVars, taskVars>>

_run == ToolCall("_run")

_arun == ToolCall("_arun")

ToolNext == _run \/ _arun

-----------------------------------------------------------------------------
(***************************************************************************)
(* chat_models/chat.py: ChatGlean, request building                        *)
(***************************************************************************)

\* The longest message list given to _build_chat_params.
MaxMsgs == 2

\* message.content: a string, or a list of content blocks.
Contents == {[str |-> "Hello"], [str |-> ""], [list |-> <<"Hello">>]}

\* str(message.content)
PyStr(content) ==
    IF "str" \in DOMAIN content THEN content.str ELSE "['Hello']"

\* role.upper() of the ChatMessage roles used here.
Upper(role) ==
    CASE role = "user" -> "USER"
      [] role = "Assistant" -> "ASSISTANT"
      [] role = "ai" -> "AI"
      [] role = "system" -> "SYSTEM"
      [] role = "moderator" -> "MODERATOR"
      [] OTHER -> role

\* The LangChain messages: the message classes (a chunk class is an instance
\* of its message class), ChatMessage with its free role, and a class the
\* converter does not name.
LcMessages ==
    {[cls |-> c, role |-> None, content |-> t] :
        c \in {"HumanMessage", "AIMessage", "SystemMessage", "FunctionMessage"},
        t \in Contents}
    \cup {[cls |-> "ChatMessage", role |-> r, content |-> t] :
            r \in {"user", "Assistant", "ai", "system", "moderator"},
            t \in Contents}

ChatMessageOf(author, message_type, text) ==
    [author |-> author, message_type |-> message_type,
     fragments |-> <<[text |-> text]>>]

\* The converter without the early return for SystemMessage.
_convert_message_to_glean_format_no_context(message) ==
    LET author ==
            IF message.cls = "HumanMessage" THEN "USER"
            ELSE IF message.cls = "AIMessage" THEN "GLEAN_AI"
            ELSE IF message.cls = "SystemMessage" THEN "USER"
            ELSE IF message.cls = "ChatMessage"
            THEN IF Upper(message.role) = "USER" THEN "USER"
                 ELSE IF Upper(message.role) = "ASSISTANT" \/ Upper(message.role) = "AI"
                 THEN "GLEAN_AI"
                 ELSE "USER"
            ELSE "USER"
    IN  ChatMessageOf(author, "CONTENT", PyStr(message.content))

_convert_message_to_glean_format(message) ==
    IF message.cls = "HumanMessage"
    THEN ChatMessageOf("USER", "CONTENT", PyStr(message.content))
    ELSE IF message.cls = "AIMessage"
    THEN ChatMessageOf("GLEAN_AI", "CONTENT", PyStr(message.content))
    ELSE IF message.cls = "SystemMessage"
    THEN ChatMessageOf("USER", "CONTEXT", PyStr(message.content))
    ELSE IF message.cls = "ChatMessage"
    THEN IF Upper(message.role) = "USER"
         THEN ChatMessageOf("USER", "CONTENT", PyStr(message.content))
         ELSE IF Upper(message.role) = "ASSISTANT" \/ Upper(message.role) = "AI"
         THEN ChatMessageOf("GLEAN_AI", "CONTENT", PyStr(message.content))
         ELSE ChatMessageOf("USER", "CONTENT", PyStr(message.content))
    ELSE ChatMessageOf("USER", "CONTENT", PyStr(message.content))

\* The fields of the instance that _build_chat_params copies, at their
\* defaults (chat.py:114-136).
Config ==
    [save_chat |-> FALSE,
     agent_config |-> [agent |-> "DEFAULT", mode |-> "DEFAULT"],
     inclusions |-> None, exclusions |-> None,
     timeout_millis |-> {}, application_id |-> None]

\* The request without the held chat id attached.
_build_chat_params_no_chat_id(messages, held) ==
    [messages |-> [i \in DOMAIN messages |->
                      _convert_message_to_glean_format(messages[i])],
     save_chat |-> Config.save_chat,
     agent_config |-> Config.agent_config,
     chat_id |-> None,
     inclusions |-> Config.inclusions,
     exclusions |-> Config.exclusions,
     timeout_millis |-> Config.timeout_millis,
     application_id |-> Config.application_id,
     stream |-> FALSE]

\* _build_chat_params(messages) on an instance holding chat id `held`.
_build_chat_params(messages, held) ==
    [messages |-> [i \in DOMAIN messages |->
                      _convert_message_to_glean_format(messages[i])],
     save_chat |-> Config.save_chat,
     agent_config |-> Config.agent_config,
     chat_id |-> IF Truthy(held) THEN held ELSE None,
     inclusions |-> IF Truthy(Config.inclusions) THEN Config.inclusions ELSE None,
     exclusions |-> IF Truthy(Config.exclusions) THEN Config.exclusions ELSE None,
     timeout_millis |-> Config.timeout_millis,
     application_id |-> IF Truthy(Config.application_id)
                        THEN Config.application_id ELSE None,
     stream |-> FALSE]

NoRequest == [chat_id |-> None, messages |-> <<>>, stream |-> FALSE]
NoCall == [kind |-> None, messages |-> <<>>, stop |-> FALSE]
NoResponse == [type |-> None]
NoResult == [status |-> None]
NoCallbacks == [on_llm_error |-> 0, on_llm_new_token |-> 0]

\* The chat ids an instance can hold when a call starts: none, or the id of
\* an existing chat (constructor argument or an earlier response).
HeldIds == {None, "c0", "c1"}

\* No call on the chat model.
ChatIdle ==
    /\ chat_id = None
    /\ pc = "unused"
    /\ call = NoCall
    /\ request = NoRequest
    /\ response = NoResponse
    /\ pos = <<1, 1, 1>>
    /\ chunks = <<>>
    /\ result = NoResult
    /\ callbacks = NoCallbacks
    /\ lastGen = None

\* Request building alone: any message list, any held chat id.
BuildInit ==
    /\ chat_id \in HeldIds
    /\ pc = "building"
    /\ call \in {[kind |-> "_build_chat_params", messages |-> ms, stop |-> FALSE] :
                    ms \in SeqUpTo(LcMessages, MaxMsgs)}
    /\ request = NoRequest
    /\ response = NoResponse
    /\ pos = <<1, 1, 1>>
    /\ chunks = <<>>
    /\ result = NoResult
    /\ callbacks = NoCallbacks
    /\ lastGen = None

BuildChatParams ==
    /\ pc = "building"
    /\ request' = _build_chat_params(call.messages, chat_id)
    /\ pc' = "built"
    /\ UNCHANGED <<chat_id, call, response, pos, chunks, result, callbacks, lastGen>>
    /\ UNCHANGED <<errVars, toolVars, credVars, fnVars, taskVars>>

BuildNext == BuildChatParams

-----------------------------------------------------------------------------
(***************************************************************************)
(* chat_models/chat.py: ChatGlean, the calls                               *)
(***************************************************************************)

\* The most messages in a non-streaming response and the most lines in a
\* streamed body.
MaxRespMsgs == 2
MaxLines == 3

\* A fragment with a text, and one without the key "text".
Frag(t) == [hasText |-> TRUE, text |-> t]
NoTextFrag == [hasText |-> FALSE, text |-> None]

\* A message of a response: a dict (keys author, messageType, fragments), a
\* models.ChatMessage object (attributes), or not a message at all.
Msg(repr, author, messageType, fragments) ==
    [repr |-> repr, author |-> author, messageType |-> messageType,
     fragments |-> fragments]

RespMsgs ==
    {Msg("dict", "GLEAN_AI", "CONTENT", <<Frag("Hello "), Frag("world")>>),
     Msg("dict", "GLEAN_AI", "CONTENT", <<Frag("Bye")>>),
     Msg("dict", "GLEAN_AI", "UPDATE", <<Frag("Searching")>>),
     Msg("dict", "USER", "CONTENT", <<Frag("question")>>),
     Msg("object", "GLEAN_AI", "CONTENT", <<Frag("Obj")>>)}

RemoteFailures ==
    {[type |-> "GleanError", text |-> "401 Unauthorized"],
     [type |-> "Exception", text |-> "connection reset"]}

\* What chat.create / create_async gives: a response or a failure.
Responses ==
    [type : {"response"},
     messages : SeqUpTo(RespMsgs, MaxRespMsgs),
     chatId : {None, "", "c1", "c2"},
     chatSessionTrackingToken : {None, "t1"}]

\* One line of a streamed body: blank, not JSON, or a JSON object with the
\* keys chatId, chatSessionTrackingToken and messages, each present or not.
Line(chatId, token, hasMessages, messages) ==
    [kind |-> "json", chatId |-> chatId, chatSessionTrackingToken |-> token,
     hasMessages |-> hasMessages, messages |-> messages]
BlankLine == [kind |-> "blank"]
BadLine == [kind |-> "bad"]

StreamLines ==
    {BlankLine,
     BadLine,
     Line("c1", "t1", TRUE, <<>>),
     Line(None, None, TRUE, <<Msg("dict", "GLEAN_AI", "CONTENT", <<Frag("This is ")>>)>>),
     Line("c2", "t2", TRUE,
          <<Msg("dict", "GLEAN_AI", "CONTENT", <<Frag("A"), Frag("B")>>)>>),
     Line("c1", None, TRUE,
          <<Msg("dict", "USER", "CONTENT", <<Frag("U")>>),
            Msg("dict", "GLEAN_AI", "CONTENT", <<Frag(""), Frag("C")>>)>>),
     Line("c2", None, FALSE, <<>>),
     Line(None, "t1", TRUE,
          <<Msg("dict", "GLEAN_AI", "UPDATE", <<Frag("X")>>),
            Msg("dict", "GLEAN_AI", "CONTENT", <<NoTextFrag, Frag("D")>>),
            Msg("str", None, None, <<>>),
            Msg("dict", "GLEAN_AI", "CONTENT", <<Frag("E")>>)>>)}

\* What chat.create_stream / create_stream_async gives: a body or a failure.
StreamBodies ==
    {[type |-> "body", lines |-> ls] : ls \in SeqUpTo(StreamLines, MaxLines)}

\* isinstance(msg, dict) and msg.get("author") == "GLEAN_AI" and
\* msg.get("messageType") == "CONTENT"
IsAiContentDict(msg) ==
    msg.repr = "dict" /\ msg.author = "GLEAN_AI" /\ msg.messageType = "CONTENT"

\* The texts added to content: those of the fragments that have one.
RECURSIVE FragmentTexts(_)
FragmentTexts(fragments) ==
    IF fragments = <<>> THEN <<>>
    ELSE (IF Head(fragments).hasText /\ Truthy(Head(fragments).text)
          THEN <<Head(fragments).text>> ELSE <<>>)
         \o FragmentTexts(Tail(fragments))

\* _convert_glean_message_to_langchain: author and fragments are read as
\* attributes (hasattr), which a dict does not have.
_convert_glean_message_to_langchain(message) ==
    LET author == IF message.repr = "object" THEN message.author ELSE None
        fragments == IF message.repr = "object" THEN message.fragments ELSE <<>>
        content == FragmentTexts(fragments)
    IN  IF author = "GLEAN_AI"
        THEN [type |-> "ai", content |-> content]
        ELSE [type |-> "human", content |-> content]

Raised(exc, text) == [status |-> "raised", exc |-> exc, text |-> text]

\* _generate, but the chat id of the response is not stored.
GenerateOutcome_keeps_held(resp, held) ==
    IF resp.type = "GleanError"
    THEN [result |-> Raised("ValueError", <<"Glean client error: ", resp.text>>),
          chat_id |-> held]
    ELSE IF resp.type = "Exception"
    THEN [result |-> Raised("Exception", <<resp.text>>), chat_id |-> held]
    ELSE LET ai_messages == SelectSeq(resp.messages, IsAiContentDict)
         IN  IF ai_messages = <<>>
             THEN [result |-> Raised("ValueError",
                                     <<"No AI response found in the Glean response">>),
                   chat_id |-> held]
             ELSE LET ai_message == ai_messages[Len(ai_messages)]
                      stored == held
                      generation ==
                        [message |-> _convert_glean_message_to_langchain(ai_message),
                         generation_info |->
                            [chat_id |-> stored,
                             tracking_token |-> resp.chatSessionTrackingToken]]
                  IN  [result |-> [status |-> "returned",
                                   generations |-> <<generation>>],
                       chat_id |-> stored]

\* _generate, but a response without a qualifying message gives a
\* generation with no content.
GenerateOutcome_empty_generation(resp, held) ==
    IF resp.type = "GleanError"
    THEN [result |-> Raised("ValueError", <<"Glean client error: ", resp.text>>),
          chat_id |-> held]
    ELSE IF resp.type = "Exception"
    THEN [result |-> Raised("Exception", <<resp.text>>), chat_id |-> held]
    ELSE LET ai_messages == SelectSeq(resp.messages, IsAiContentDict)
         IN  IF ai_messages = <<>>
             THEN [result |-> [status |-> "returned",
                               generations |->
                                  <<[message |-> [type |-> "ai", content |-> <<>>],
                                     generation_info |->
                                        [chat_id |-> held,
                                         tracking_token |-> resp.chatSessionTrackingToken]]>>],
                   chat_id |-> held]
             ELSE LET ai_message == ai_messages[Len(ai_messages)]
                      stored == IF Truthy(resp.chatId) THEN resp.chatId ELSE held
                      generation ==
                        [message |-> _convert_glean_message_to_langchain(ai_message),
                         generation_info |->
                            [chat_id |-> stored,
                             tracking_token |-> resp.chatSessionTrackingToken]]
                  IN  [result |-> [status |-> "returned",
                                   generations |-> <<generation>>],
                       chat_id |-> stored]

\* _generate, but the chat id is stored before the messages are looked at.
GenerateOutcome_store_first(resp, held) ==
    IF resp.type = "GleanError"
    THEN [result |-> Raised("ValueError", <<"Glean client error: ", resp.text>>),
          chat_id |-> held]
    ELSE IF resp.type = "Exception"
    THEN [result |-> Raised("Exception", <<resp.text>>), chat_id |-> held]
    ELSE LET ai_messages == SelectSeq(resp.messages, IsAiContentDict)
         IN  IF ai_messages = <<>>
             THEN [result |-> Raised("ValueError",
                                     <<"No AI response found in the Glean response">>),
                   chat_id |-> IF Truthy(resp.chatId) THEN resp.chatId ELSE held]
             ELSE LET ai_message == ai_messages[Len(ai_messages)]
                      stored == IF Truthy(resp.chatId) THEN resp.chatId ELSE held
                      generation ==
                        [message |-> _convert_glean_message_to_langchain(ai_message),
                         generation_info |->
                            [chat_id |-> stored,
                             tracking_token |-> resp.chatSessionTrackingToken]]
                  IN  [result |-> [status |-> "returned",
                                   generations |-> <<generation>>],
                       chat_id |-> stored]

\* _generate, but an empty chat id of the response is stored too.
GenerateOutcome_store_any(resp, held) ==
    IF resp.type = "GleanError"
    THEN [result |-> Raised("ValueError", <<"Glean client error: ", resp.text>>),
          chat_id |-> held]
    ELSE IF resp.type = "Exception"
    THEN [result |-> Raised("Exception", <<resp.text>>), chat_id |-> held]
    ELSE LET ai_messages == SelectSeq(resp.messages, IsAiContentDict)
         IN  IF ai_messages = <<>>
             THEN [result |-> Raised("ValueError",
                                     <<"No AI response found in the Glean response">>),
                   chat_id |-> held]
             ELSE LET ai_message == ai_messages[Len(ai_messages)]
                      stored == IF resp.chatId # None THEN resp.chatId ELSE held
                      generation ==
                        [message |-> _convert_glean_message_to_langchain(ai_message),
                         generation_info |->
                            [chat_id |-> stored,
                             tracking_token |-> resp.chatSessionTrackingToken]]
                  IN  [result |-> [status |-> "returned",
                                   generations |-> <<generation>>],
                       chat_id |-> stored]

\* _generate from the remote call's outcome on: how the call ends and the
\* chat id held afterwards (chat.py:311-341).
GenerateOutcome(resp, held) ==
    IF resp.type = "GleanError"
    THEN [result |-> Raised("ValueError", <<"Glean client error: ", resp.text>>),
          chat_id |-> held]
    ELSE IF resp.type = "Exception"
    THEN [result |-> Raised("Exception", <<resp.text>>), chat_id |-> held]
    ELSE LET ai_messages == SelectSeq(resp.messages, IsAiContentDict)
         IN  IF ai_messages = <<>>
             THEN [result |-> Raised("ValueError",
                                     <<"No AI response found in the Glean response">>),
                   chat_id |-> held]
             ELSE LET ai_message == ai_messages[Len(ai_messages)]
                      stored == IF Truthy(resp.chatId) THEN resp.chatId ELSE held
                      generation ==
                        [message |-> _convert_glean_message_to_langchain(ai_message),
                         generation_info |->
                            [chat_id |-> stored,
                             tracking_token |-> resp.chatSessionTrackingToken]]
                  IN  [result |-> [status |-> "returned",
                                   generations |-> <<generation>>],
                       chat_id |-> stored]

\* _agenerate from the remote call's outcome on (chat.py:382-412).
AGenerateOutcome(resp, held) ==
    IF resp.type = "GleanError"
    THEN [result |-> Raised("ValueError", <<"Glean client error: ", resp.text>>),
          chat_id |-> held]
    ELSE IF resp.type = "Exception"
    THEN [result |-> Raised("Exception", <<resp.text>>), chat_id |-> held]
    ELSE LET ai_messages == SelectSeq(resp.messages, IsAiContentDict)
         IN  IF ai_messages = <<>>
             THEN [result |-> Raised("ValueError",
                                     <<"No AI response found in the Glean response">>),
                   chat_id |-> held]
             ELSE LET ai_message == ai_messages[Len(ai_messages)]
                      stored == IF Truthy(resp.chatId) THEN resp.chatId ELSE held
                      generation ==
                        [message |-> _convert_glean_message_to_langchain(ai_message),
                         generation_info |->
                            [chat_id |-> stored,
                             tracking_token |-> resp.chatSessionTrackingToken]]
                  IN  [result |-> [status |-> "returned",
                                   generations |-> <<generation>>],
                       chat_id |-> stored]

\* NextEvent, but a fragment whose text is empty is yielded too.
RECURSIVE NextEvent_empty_texts(_, _, _, _)
NextEvent_empty_texts(lines, i, j, k) ==
    IF i > Len(lines) THEN [type |-> "end"]
    ELSE IF lines[i].kind = "blank" THEN NextEvent_empty_texts(lines, i + 1, 1, 1)
    ELSE IF lines[i].kind = "bad" THEN [type |-> "error", i |-> i]
    ELSE IF ~lines[i].hasMessages \/ j > Len(lines[i].messages)
    THEN NextEvent_empty_texts(lines, i + 1, 1, 1)
    ELSE IF ~IsAiContentDict(lines[i].messages[j])
            \/ k > Len(lines[i].messages[j].fragments)
    THEN NextEvent_empty_texts(lines, i, j + 1, 1)
    ELSE IF lines[i].messages[j].fragments[k].hasText
    THEN [type |-> "yield", i |-> i, j |-> j, k |-> k,
          text |-> lines[i].messages[j].fragments[k].text]
    ELSE NextEvent_empty_texts(lines, i, j, k + 1)

\* NextEvent, but a line that is not JSON is skipped.
RECURSIVE NextEvent_skip_bad(_, _, _, _)
NextEvent_skip_bad(lines, i, j, k) ==
    IF i > Len(lines) THEN [type |-> "end"]
    ELSE IF lines[i].kind = "blank" THEN NextEvent_skip_bad(lines, i + 1, 1, 1)
    ELSE IF lines[i].kind = "bad" THEN NextEvent_skip_bad(lines, i + 1, 1, 1)
    ELSE IF ~lines[i].hasMessages \/ j > Len(lines[i].messages)
    THEN NextEvent_skip_bad(lines, i + 1, 1, 1)
    ELSE IF ~IsAiContentDict(lines[i].messages[j])
            \/ k > Len(lines[i].messages[j].fragments)
    THEN NextEvent_skip_bad(lines, i, j + 1, 1)
    ELSE IF lines[i].messages[j].fragments[k].hasText
            /\ Truthy(lines[i].messages[j].fragments[k].text)
    THEN [type |-> "yield", i |-> i, j |-> j, k |-> k,
          text |-> lines[i].messages[j].fragments[k].text]
    ELSE NextEvent_skip_bad(lines, i, j, k + 1)

\* The loop of _stream from line i, message j, fragment k on, up to its next
\* yield, its parse failure or its end (chat.py:456-490).
RECURSIVE NextEvent(_, _, _, _)
NextEvent(lines, i, j, k) ==
    IF i > Len(lines) THEN [type |-> "end"]
    ELSE IF lines[i].kind = "blank" THEN NextEvent(lines, i + 1, 1, 1)
    ELSE IF lines[i].kind = "bad" THEN [type |-> "error", i |-> i]
    ELSE IF ~lines[i].hasMessages \/ j > Len(lines[i].messages)
    THEN NextEvent(lines, i + 1, 1, 1)
    ELSE IF ~IsAiContentDict(lines[i].messages[j])
            \/ k > Len(lines[i].messages[j].fragments)
    THEN NextEvent(lines, i, j + 1, 1)
    ELSE IF lines[i].messages[j].fragments[k].hasText
            /\ Truthy(lines[i].messages[j].fragments[k].text)
    THEN [type |-> "yield", i |-> i, j |-> j, k |-> k,
          text |-> lines[i].messages[j].fragments[k].text]
    ELSE NextEvent(lines, i, j, k + 1)

\* ANextEvent, but a line that is not JSON is skipped.
RECURSIVE ANextEvent_skip_bad(_, _, _, _)
ANextEvent_skip_bad(lines, i, j, k) ==
    IF i > Len(lines) THEN [type |-> "end"]
    ELSE IF lines[i].kind = "blank" THEN ANextEvent_skip_bad(lines, i + 1, 1, 1)
    ELSE IF lines[i].kind = "bad" THEN ANextEvent_skip_bad(lines, i + 1, 1, 1)
    ELSE IF ~lines[i].hasMessages \/ j > Len(lines[i].messages)
    THEN ANextEvent_skip_bad(lines, i + 1, 1, 1)
    ELSE IF ~IsAiContentDict(lines[i].messages[j])
            \/ k > Len(lines[i].messages[j].fragments)
    THEN ANextEvent_skip_bad(lines, i, j + 1, 1)
    ELSE IF lines[i].messages[j].fragments[k].hasText
            /\ Truthy(lines[i].messages[j].fragments[k].text)
    THEN [type |-> "yield", i |-> i, j |-> j, k |-> k,
          text |-> lines[i].messages[j].fragments[k].text]
    ELSE ANextEvent_skip_bad(lines, i, j, k + 1)

\* The loop of _astream from line i, message j, fragment k on, up to its
\* next yield, its parse failure or its end (chat.py:543-577).
RECURSIVE ANextEvent(_, _, _, _)
ANextEvent(lines, i, j, k) ==
    IF i > Len(lines) THEN [type |-> "end"]
    ELSE IF lines[i].kind = "blank" THEN ANextEvent(lines, i + 1, 1, 1)
    ELSE IF lines[i].kind = "bad" THEN [type |-> "error", i |-> i]
    ELSE IF ~lines[i].hasMessages \/ j > Len(lines[i].messages)
    THEN ANextEvent(lines, i + 1, 1, 1)
    ELSE IF ~IsAiContentDict(lines[i].messages[j])
            \/ k > Len(lines[i].messages[j].fragments)
    THEN ANextEvent(lines, i, j + 1, 1)
    ELSE IF lines[i].messages[j].fragments[k].hasText
            /\ Truthy(lines[i].messages[j].fragments[k].text)
    THEN [type |-> "yield", i |-> i, j |-> j, k |-> k,
          text |-> lines[i].messages[j].fragments[k].text]
    ELSE ANextEvent(lines, i, j, k + 1)

\* The chunk yielded for a fragment of a line; `line` records the line it
\* came from.
ChunkOf(line, text, i) ==
    [text |-> text,
     generation_info |-> [chat_id |-> line.chatId,
                          tracking_token |-> line.chatSessionTrackingToken],
     line |-> i]

\* The message lists of the calls (the tests' conversations).
ChatInputs ==
    {<<[cls |-> "SystemMessage", role |-> None, content |-> [str |-> "Hello"]],
       [cls |-> "HumanMessage", role |-> None, content |-> [str |-> "Hello"]]>>,
     <<[cls |-> "HumanMessage", role |-> None, content |-> [str |-> "Hello"]]>>}

StreamKinds == {"_stream", "_astream"}
GenerateKinds == {"_generate", "_agenerate"}

ChatInit ==
    /\ chat_id \in {None, "c0"}
    /\ pc = "idle"
    /\ call = NoCall
    /\ request = NoRequest
    /\ response = NoResponse
    /\ pos = <<1, 1, 1>>
    /\ chunks = <<>>
    /\ result = NoResult
    /\ callbacks = NoCallbacks
    /\ lastGen = None

\* An entry point is called: the stop check, then the request is built and
\* the remote call is made.
Invoke(kind) ==
    /\ pc = "idle"
    /\ \E ms \in ChatInputs, stop \in BOOLEAN :
          /\ call' = [kind |-> kind, messages |-> ms, stop |-> stop]
          /\ IF stop
             THEN /\ result' = Raised("ValueError",
                        <<"stop sequences are not supported by the Glean Chat Model">>)
                  /\ pc' = "done"
                  /\ request' = NoRequest
                  /\ lastGen' = None
             ELSE /\ request' = [_build_chat_params(ms, chat_id)
                                    EXCEPT !.stream = (kind \in StreamKinds)]
                  /\ pc' = "awaiting"
                  /\ result' = NoResult
                  /\ lastGen' = lastGen
    /\ UNCHANGED <<chat_id, response, pos, chunks, callbacks>>
    /\ UNCHANGED <<errVars, toolVars, credVars, fnVars, taskVars>>

\* chat.create / create_async returns or raises, and the call runs to its
\* end.
GenerateReturns ==
    /\ pc = "awaiting"
    /\ call.kind \in GenerateKinds
    /\ \E resp \in Responses \cup RemoteFailures :
          LET o == IF call.kind = "_agenerate"
                   THEN AGenerateOutcome(resp, chat_id)
                   ELSE GenerateOutcome(resp, chat_id)
          IN  /\ response' = resp
              /\ result' = o.result
              /\ chat_id' = o.chat_id
              /\ lastGen' = IF o.result.status = "returned" /\ Truthy(resp.chatId)
                            THEN resp.chatId ELSE None
    /\ pc' = "done"
    /\ request' = NoRequest
    /\ UNCHANGED <<call, pos, chunks, callbacks>>
    /\ UNCHANGED <<errVars, toolVars, credVars, fnVars, taskVars>>

\* The stream loop runs from place p to its next yield, failure or end; cb
\* are the callback counts so far.
RunLoop(lines, p, cb) ==
    LET e == IF call.kind = "_astream"
             THEN ANextEvent(lines, p[1], p[2], p[3])
             ELSE NextEvent(lines, p[1], p[2], p[3])
    IN  IF e.type = "yield"
        THEN /\ chat_id' = IF Truthy(lines[e.i].chatId) /\ ~Truthy(chat_id)
                           THEN lines[e.i].chatId ELSE chat_id
             /\ chunks' = Append(chunks, ChunkOf(lines[e.i], e.text, e.i))
             /\ pos' = <<e.i, e.j, e.k + 1>>
             /\ pc' = "yielded"
             /\ callbacks' = cb
             /\ UNCHANGED <<result, lastGen>>
        ELSE IF e.type = "error"
        THEN \* the inner handler reports and raises ValueError, which the
             \* outer "except Exception" reports and wraps again
             /\ callbacks' = [cb EXCEPT !.on_llm_error = @ + 2]
             /\ result' = Raised("ValueError",
                                 <<"Error during streaming: ",
                                   "Error parsing stream response: ">>)
             /\ pos' = <<e.i, 1, 1>>
             /\ pc' = "done"
             /\ lastGen' = None
             /\ UNCHANGED <<chat_id, chunks>>
        ELSE /\ result' = [status |-> "exhausted"]
             /\ pos' = <<Len(lines) + 1, 1, 1>>
             /\ pc' = "done"
             /\ lastGen' = None
             /\ callbacks' = cb
             /\ UNCHANGED <<chat_id, chunks>>

\* chat.create_stream / create_stream_async returns a body or raises; the
\* loop runs to its first yield.
StreamReturns ==
    /\ pc = "awaiting"
    /\ call.kind \in StreamKinds
    /\ \E resp \in StreamBodies \cup RemoteFailures :
          /\ response' = resp
          /\ IF resp.type = "body"
             THEN RunLoop(resp.lines, <<1, 1, 1>>, callbacks)
             ELSE /\ callbacks' = [callbacks EXCEPT !.on_llm_error = @ + 1]
                  /\ result' = Raised("ValueError",
                        <<IF resp.type = "GleanError" THEN "Glean client error: "
                          ELSE "Error during streaming: ", resp.text>>)
                  /\ pc' = "done"
                  /\ lastGen' = None
                  /\ UNCHANGED <<chat_id, chunks, pos>>
    /\ request' = NoRequest
    /\ UNCHANGED call
    /\ UNCHANGED <<errVars, toolVars, credVars, fnVars, taskVars>>

\* The consumer asks for the next chunk: on_llm_new_token for the last one,
\* then the loop goes on.
StreamResumes ==
    /\ pc = "yielded"
    /\ RunLoop(response.lines, pos,
               [callbacks EXCEPT !.on_llm_new_token = @ + 1])
    /\ UNCHANGED <<call, request, response>>
    /\ UNCHANGED <<errVars, toolVars, credVars, fnVars, taskVars>>

\* The caller has the result; the instance is ready for its next call.
Finish ==
    /\ pc = "done"
    /\ pc' = "idle"
    /\ call' = NoCall
    /\ response' = NoResponse
    /\ pos' = <<1, 1, 1>>
    /\ chunks' = <<>>
    /\ result' = NoResult
    /\ callbacks' = NoCallbacks
    /\ UNCHANGED <<chat_id, request, lastGen>>
    /\ UNCHANGED <<errVars, toolVars, credVars, fnVars, taskVars>>

ChatNext ==
    \/ \E kind \in GenerateKinds \cup StreamKinds : Invoke(kind)
    \/ GenerateReturns
    \/ StreamReturns
    \/ StreamResumes
    \/ Finish

-----------------------------------------------------------------------------
(***************************************************************************)
(* Construction of the components that resolve their credentials from the  *)
(* constructor arguments or the environment: ChatGlean (chat.py),          *)
(* GleanPeopleProfileRetriever (retrievers/people.py) and the classes      *)
(* built on GleanAPIClientMixin (_api_client_mixin.py).                    *)
(***************************************************************************)

CredFields == {"instance", "api_token", "act_as"}

\* The environment variable of a field.
EnvKey(field) ==
    IF field = "instance" THEN "GLEAN_INSTANCE"
    ELSE IF field = "api_token" THEN "GLEAN_API_TOKEN"
    ELSE "GLEAN_ACT_AS"

EnvKeys == {EnvKey(f) : f \in CredFields}

\* The keyword arguments of a constructor call: each field absent, None,
\* empty, whitespace or a value.
ArgVal(field) ==
    IF field = "instance" THEN "acme"
    ELSE IF field = "api_token" THEN "arg-token"
    ELSE "arg@example.com"

KwArgs ==
    UNION {{a \in [fs -> {None, "", "   "} \cup {ArgVal(f) : f \in fs}] :
               \A f \in fs : a[f] \in {None, "", "   ", ArgVal(f)}} :
           fs \in SUBSET CredFields}

\* The environment: each variable unset, empty or a value.
EnvVal(key) ==
    IF key = "GLEAN_INSTANCE" THEN "env-co"
    ELSE IF key = "GLEAN_API_TOKEN" THEN "env-token"
    ELSE "env@example.com"

Environments ==
    UNION {{e \in [ks -> {""} \cup {EnvVal(k) : k \in ks}] :
               \A k \in ks : e[k] \in {"", EnvVal(k)}} :
           ks \in SUBSET EnvKeys}

Found(value) == [found |-> TRUE, value |-> value]
NotFound(key) == [found |-> FALSE, value |-> key]

\* langchain_core.utils.get_from_dict_or_env as the validators call it: the
\* dictionary's value when the key is there with a truthy value, else the
\* environment variable when it is set and not empty, else the default when
\* one is given, else ValueError.
get_from_dict_or_env(data, env, key, env_key, default) ==
    IF key \in DOMAIN data /\ Truthy(data[key]) THEN Found(data[key])
    ELSE IF env_key \in DOMAIN env /\ env[env_key] # "" THEN Found(env[env_key])
    ELSE IF default # None THEN Found(default)
    ELSE NotFound(key)

\* The values a validator returns: the arguments with the three fields set,
\* or the ValueError of the first field that was not found.
Resolved(values, instance, api_token, act_as) ==
    IF ~instance.found THEN Raised("ValueError", <<"Did not find ", "instance">>)
    ELSE IF ~api_token.found
    THEN Raised("ValueError", <<"Did not find ", "api_token">>)
    ELSE [status |-> "returned",
          values |-> [f \in (DOMAIN values) \cup CredFields |->
                        IF f = "instance" THEN instance.value
                        ELSE IF f = "api_token" THEN api_token.value
                        ELSE IF f = "act_as" THEN act_as.value
                        ELSE values[f]]]

\* validate_environment, but the environment is looked at first.
validate_environment_env_first(values, env) ==
    Resolved(values,
        get_from_dict_or_env(env, values, "GLEAN_INSTANCE", "instance", None),
        get_from_dict_or_env(env, values, "GLEAN_API_TOKEN", "api_token", None),
        get_from_dict_or_env(env, values, "GLEAN_ACT_AS", "act_as", ""))

\* ChatGlean.validate_environment
validate_environment(values, env) ==
    Resolved(values,
        get_from_dict_or_env(values, env, "instance", "GLEAN_INSTANCE", None),
        get_from_dict_or_env(values, env, "api_token", "GLEAN_API_TOKEN", None),
        get_from_dict_or_env(values, env, "act_as", "GLEAN_ACT_AS", ""))

\* GleanPeopleProfileRetriever.validate_environment
people_validate_environment(values, env) ==
    Resolved(values,
        get_from_dict_or_env(values, env, "instance", "GLEAN_INSTANCE", None),
        get_from_dict_or_env(values, env, "api_token", "GLEAN_API_TOKEN", None),
        get_from_dict_or_env(values, env, "act_as", "GLEAN_ACT_AS", ""))

\* GleanAPIClientMixin._resolve_env
_resolve_env(values, env) ==
    Resolved(values,
        get_from_dict_or_env(values, env, "instance", "GLEAN_INSTANCE", None),
        get_from_dict_or_env(values, env, "api_token", "GLEAN_API_TOKEN", None),
        get_from_dict_or_env(values, env, "act_as", "GLEAN_ACT_AS", ""))

CredClasses == {"ChatGlean", "GleanPeopleProfileRetriever", "ChatGleanAgent"}

\* The "before" validator of a class.
BeforeValidator(cls, values, env) ==
    IF cls = "ChatGlean" THEN validate_environment(values, env)
    ELSE IF cls = "GleanPeopleProfileRetriever"
    THEN people_validate_environment(values, env)
    ELSE _resolve_env(values, env)

NotConstructed == [status |-> None]

\* A constructor is about to be called.
CredInit ==
    /\ credCls \in CredClasses
    /\ credArgs \in KwArgs
    /\ credEnv \in Environments
    /\ credValues = NotConstructed
    /\ credOut = NotConstructed

\* cls(**kwargs): the validator resolves the fields, then the Glean client
\* is built from the resolved token and instance, which may raise.
Construct ==
    /\ credOut = NotConstructed
    /\ LET v == BeforeValidator(credCls, credArgs, credEnv)
       IN  /\ credValues' = v
           /\ IF v.status = "raised" THEN credOut' = v
              ELSE \E clientRaises \in BOOLEAN :
                      credOut' =
                         IF clientRaises
                         THEN Raised("ValueError",
                                     <<"Failed to initialize Glean client: ">>)
                         ELSE [status |-> "constructed",
                               instance |-> v.values["instance"],
                               api_token |-> v.values["api_token"],
                               act_as |-> v.values["act_as"]]
    /\ UNCHANGED <<credCls, credArgs, credEnv>>
    /\ UNCHANGED <<errVars, toolVars, chatVars, fnVars, taskVars>>

CredNext == Construct

-----------------------------------------------------------------------------
(***************************************************************************)
(* error_handling.py: validate_configuration                               *)
(*                                                                         *)
(* A string whose characters the code looks at is a sequence of            *)
(* characters; an optional such string is a set with at most one element.  *)
(***************************************************************************)

\* The longest instance name and the longest run of token characters.
MaxInstanceLen == 2
MaxTokenLen == 11

\* len(api_token.strip()) < 10
MinTokenLen == 10

Chars == {"a", "1", "-", "_", " ", "."}

\* str.isalnum() of one character.
IsAlnumChar(c) == c \in {"a", "1"}

\* str.isspace() of one character.
IsSpace(c) == c \in {" ", "\n"}

\* str.strip()
RECURSIVE LStrip(_)
LStrip(s) == IF s # <<>> /\ IsSpace(Head(s)) THEN LStrip(Tail(s)) ELSE s

RECURSIVE RStrip(_)
RStrip(s) ==
    IF s # <<>> /\ IsSpace(s[Len(s)])
    THEN RStrip(SubSeq(s, 1, Len(s) - 1)) ELSE s

Strip(s) == RStrip(LStrip(s))

\* str.replace(ch, "")
Remove(s, ch) == SelectSeq(s, LAMBDA c : c # ch)

\* str.isalnum(): not empty, and every character is a letter or a digit.
IsAlnum(s) == s # <<>> /\ \A i \in DOMAIN s : IsAlnumChar(s[i])

\* n times the character ch.
Rep(ch, n) == [i \in 1..n |-> ch]

InstanceArgs == {{}} \cup {{s} : s \in SeqUpTo(Chars, MaxInstanceLen)}

TokenArgs ==
    {{}} \cup {{Rep(" ", a) \o Rep("a", b) \o Rep(" ", c)} :
                 a \in 0..1, b \in 0..MaxTokenLen, c \in 0..1}

\* "not x" of an optional string.
Falsy(x) == x = {} \/ x = {<<>>}

\* The string of an optional string that is not None.
Str(x) == CHOOSE s \in x : TRUE

ReturnedValue(v) == [status |-> "returned", value |-> v]

\* validate_configuration without the check of the instance format.
validate_configuration_no_format(instance, api_token, act_as) ==
    IF Falsy(instance) \/ Strip(Str(instance)) = <<>>
    THEN Raised("GleanConfigurationError", <<"Glean instance is required">>)
    ELSE IF Falsy(api_token) \/ Strip(Str(api_token)) = <<>>
    THEN Raised("GleanConfigurationError", <<"Glean API token is required">>)
    ELSE IF Len(Strip(Str(api_token))) < MinTokenLen
    THEN Raised("GleanConfigurationError",
                <<"API token appears to be invalid (too short)">>)
    ELSE ReturnedValue(None)

validate_configuration(instance, api_token, act_as) ==
    IF Falsy(instance) \/ Strip(Str(instance)) = <<>>
    THEN Raised("GleanConfigurationError", <<"Glean instance is required">>)
    ELSE IF Falsy(api_token) \/ Strip(Str(api_token)) = <<>>
    THEN Raised("GleanConfigurationError", <<"Glean API token is required">>)
    ELSE IF ~IsAlnum(Remove(Remove(Str(instance), "-"), "_"))
    THEN Raised("GleanConfigurationError",
                <<"Invalid Glean instance format: ", Str(instance)>>)
    ELSE IF Len(Strip(Str(api_token))) < MinTokenLen
    THEN Raised("GleanConfigurationError",
                <<"API token appears to be invalid (too short)">>)
    ELSE ReturnedValue(None)

NoRemote == [type |-> None]
NotEnded == [status |-> None]

ConfInit ==
    /\ fnName = "validate_configuration"
    /\ fnArgs \in [instance : InstanceArgs, api_token : TokenArgs,
                   act_as : {{}, {<<"a">>}}]
    /\ fnRemote = NoRemote
    /\ fnOut = NotEnded
    /\ fnReported = <<>>

ValidateConfiguration ==
    /\ fnName = "validate_configuration"
    /\ fnOut = NotEnded
    /\ fnOut' = validate_configuration(fnArgs.instance, fnArgs.api_token,
                                       fnArgs.act_as)
    /\ UNCHANGED <<fnName, fnArgs, fnRemote, fnReported>>
    /\ UNCHANGED <<errVars, toolVars, chatVars, credVars, taskVars>>

ConfNext == ValidateConfiguration

-----------------------------------------------------------------------------
(***************************************************************************)
(* retrievers/people.py: PeopleProfileBasicRequest and                     *)
(* GleanPeopleProfileRetriever                                             *)
(*                                                                         *)
(* A name, a title or another metadata value is a sequence of words and    *)
(* whitespace characters; a dict is a sequence of <<key, value>> pairs in  *)
(* insertion order.                                                        *)
(***************************************************************************)

\* The most people in a response.
MaxPeople == 2

\* The keyword arguments of PeopleProfileBasicRequest(...): a key that is
\* absent is not in the domain.
FilterMaps ==
    {<<>>,
     <<<<"department", "Engineering">>>>,
     <<<<"department", "Engineering">>, <<"email", "jane@acme.com">>>>,
     <<<<"email", "jane@acme.com">>, <<"department", "Product">>>>}

BasicRequestKwargs ==
    UNION {{kw \in [ks -> {[none |-> TRUE]}
                          \cup {[str |-> q] : q \in {"", "engineer"}}
                          \cup {[dict |-> f] : f \in FilterMaps}
                          \cup {[int |-> 5]}] :
               /\ "query" \in ks => kw["query"] \in
                     {[none |-> TRUE], [str |-> ""], [str |-> "engineer"]}
               /\ "filters" \in ks => kw["filters"] \in
                     {[none |-> TRUE]} \cup {[dict |-> f] : f \in FilterMaps}
               /\ "page_size" \in ks => kw["page_size"] \in
                     {[none |-> TRUE], [int |-> 5]}} :
           ks \in SUBSET {"query", "filters", "page_size"}}

\* bool(values.get(key)) for the values above.
GetTruthy(values, key) ==
    /\ key \in DOMAIN values
    /\ \/ "str" \in DOMAIN values[key] /\ values[key].str # ""
       \/ "dict" \in DOMAIN values[key] /\ values[key].dict # <<>>
       \/ "int" \in DOMAIN values[key] /\ values[key].int # 0

\* The fields of the model built from validated values; None for a field
\* that was not given.
BasicRequestOf(values) ==
    [query |-> IF "query" \in DOMAIN values /\ "str" \in DOMAIN values["query"]
               THEN values["query"].str ELSE None,
     filters |-> IF "filters" \in DOMAIN values
                    /\ "dict" \in DOMAIN values["filters"]
                 THEN {values["filters"].dict} ELSE {},
     page_size |-> IF "page_size" \in DOMAIN values
                      /\ "int" \in DOMAIN values["page_size"]
                   THEN {values["page_size"].int} ELSE {}]

\* The validator with "or" for "and".
ensure_query_or_filter_both_required(values) ==
    IF ~GetTruthy(values, "query") \/ ~GetTruthy(values, "filters")
    THEN Raised("ValidationError",
                <<"At least one of \"query\" or \"filters\" must be provided.">>)
    ELSE ReturnedValue(values)

\* PeopleProfileBasicRequest.ensure_query_or_filter
ensure_query_or_filter(values) ==
    IF ~GetTruthy(values, "query") /\ ~GetTruthy(values, "filters")
    THEN Raised("ValidationError",
                <<"At least one of \"query\" or \"filters\" must be provided.">>)
    ELSE ReturnedValue(values)

\* PeopleProfileBasicRequest(**kwargs): the "before" validator, then the
\* fields.
PeopleProfileBasicRequest(kwargs) ==
    LET v == ensure_query_or_filter(kwargs)
    IN  IF v.status = "raised" THEN v
        ELSE ReturnedValue(BasicRequestOf(v.value))

\* The valid basic requests.
BasicRequests ==
    {PeopleProfileBasicRequest(kw).value :
        kw \in {k \in BasicRequestKwargs :
                  PeopleProfileBasicRequest(k).status = "returned"}}

\* A models.ListEntitiesRequest; {} for a field that is not set.
ListEntitiesRequest(query, page_size, filter_) ==
    [entity_type |-> "PEOPLE", query |-> query, page_size |-> page_size,
     filter_ |-> filter_]

\* The inputs of the retriever: a string, a basic request, a native request.
NativeRequests ==
    {ListEntitiesRequest({"manager"}, {3},
        {<<[field_name |-> "department",
            values |-> <<[value |-> "Product", relation_type |-> "EQUALS"]>>]>>})}

PeopleInputs ==
    {[type |-> "str", value |-> q] : q \in {"software engineer", ""}}
    \cup {[type |-> "PeopleProfileBasicRequest", value |-> r] : r \in BasicRequests}
    \cup {[type |-> "ListEntitiesRequest", value |-> r] : r \in NativeRequests}

\* self.k or 10
KOrTen(k) == IF k = {} \/ k = {0} THEN 10 ELSE CHOOSE n \in k : TRUE

\* The facet filters of a filter map, one per entry and in its order.
FacetsOf(filters) ==
    [i \in DOMAIN filters |->
        [field_name |-> filters[i][1],
         values |-> <<[value |-> filters[i][2], relation_type |-> "EQUALS"]>>]]

\* _build_entities_request, but a filter matches any of the map's values.
_build_entities_request_one_facet(input_val, kwargs, k) ==
    IF input_val.type = "ListEntitiesRequest" THEN input_val.value
    ELSE IF input_val.type = "PeopleProfileBasicRequest"
    THEN LET data == input_val.value
         IN  ListEntitiesRequest(
                IF Truthy(data.query) THEN {data.query} ELSE {},
                IF data.page_size # {} THEN data.page_size ELSE {KOrTen(k)},
                IF data.filters # {} /\ data.filters # {<<>>}
                THEN {<<[field_name |-> Str(data.filters)[1][1],
                         values |-> [i \in DOMAIN Str(data.filters) |->
                                       [value |-> Str(data.filters)[i][2],
                                        relation_type |-> "EQUALS"]]]>>}
                ELSE {})
    ELSE ListEntitiesRequest({input_val.value},
            IF "page_size" \in DOMAIN kwargs THEN {kwargs["page_size"]}
            ELSE {KOrTen(k)},
            {})

\* GleanPeopleProfileRetriever._build_entities_request on an instance whose
\* field k is k.
_build_entities_request(input_val, kwargs, k) ==
    IF input_val.type = "ListEntitiesRequest" THEN input_val.value
    ELSE IF input_val.type = "PeopleProfileBasicRequest"
    THEN LET data == input_val.value
         IN  ListEntitiesRequest(
                IF Truthy(data.query) THEN {data.query} ELSE {},
                IF data.page_size # {} THEN data.page_size ELSE {KOrTen(k)},
                IF data.filters # {} /\ data.filters # {<<>>}
                THEN {FacetsOf(Str(data.filters))} ELSE {})
    ELSE ListEntitiesRequest({input_val.value},
            IF "page_size" \in DOMAIN kwargs THEN {kwargs["page_size"]}
            ELSE {KOrTen(k)},
            {})

\* A person of a response: name is {} when the object has no such
\* attribute; metadata is {} when it has none, else the attributes of the
\* metadata object as pairs.
Person(name, metadata) == [name |-> name, metadata |-> metadata]

People ==
    {Person({<<"Jane Doe">>},
            {<<<<"title", <<"Software Engineer">>>>,
               <<"email", <<"jane@example.com">>>>>>}),
     Person({<<"John Smith">>},
            {<<<<"title", <<>>>>, <<"email", <<"john@example.com">>>>>>}),
     Person({<<"Ann">>}, {}),
     Person({}, {<<<<"title", <<"Product Manager">>>>>>}),
     Person({<<>>}, {<<<<"title", <<"Engineer">>>>>>}),
     Person({<<"Bo">>}, {<<<<"title", <<" ">>>>, <<"email", <<>>>>>>}),
     Person({<<" ", "Cy">>}, {<<<<"email", <<"cy@example.com">>>>>>})}

\* What entities.list / list_async gives: a response with or without
\* results, or a failure.
PeopleResponses ==
    {[type |-> "response", results |-> {r}] : r \in SeqUpTo(People, MaxPeople)}
    \cup {[type |-> "response", results |-> {}]}
    \cup RemoteFailures

\* dict.get(key, default) on a dict of pairs.
PairsGet(pairs, key, default) ==
    IF \E i \in DOMAIN pairs : pairs[i][1] = key
    THEN pairs[CHOOSE i \in DOMAIN pairs : pairs[i][1] = key][2]
    ELSE default

Document(page_content, metadata) ==
    [page_content |-> page_content, metadata |-> metadata]

\* The loop body of _get_relevant_documents: the Document of one person.
PersonDocument(person) ==
    LET metadata == IF person.metadata # {}
                    THEN SelectSeq(Str(person.metadata), LAMBDA kv : kv[2] # <<>>)
                    ELSE <<>>
        name == IF person.name # {} THEN Str(person.name) ELSE <<"Unknown">>
        title == PairsGet(metadata, "title", <<>>)
    IN  Document(Strip(name \o <<"\n">> \o title), metadata)

\* _get_relevant_documents, but the people are mapped in reverse.
PeopleRetrieve_reversed(input_val, kwargs, k, remote) ==
    IF remote.type = "GleanError"
    THEN Raised("ValueError", <<"Glean client error: ", remote.text>>)
    ELSE IF remote.type = "Exception"
    THEN ReturnedValue(<<>>)
    ELSE LET people_results == IF remote.results = {} THEN <<>>
                               ELSE Str(remote.results)
         IN  ReturnedValue([i \in DOMAIN people_results |->
                PersonDocument(people_results[Len(people_results) + 1 - i])])

\* GleanPeopleProfileRetriever._get_relevant_documents and
\* _aget_relevant_documents from the remote call's outcome on.
PeopleRetrieve(input_val, kwargs, k, remote) ==
    IF remote.type = "GleanError"
    THEN Raised("ValueError", <<"Glean client error: ", remote.text>>)
    ELSE IF remote.type = "Exception"
    THEN ReturnedValue(<<>>)
    ELSE LET people_results == IF remote.results = {} THEN <<>>
                               ELSE Str(remote.results)
         IN  ReturnedValue([i \in DOMAIN people_results |->
                               PersonDocument(people_results[i])])

PeopleEntryPoints == {"_get_relevant_documents", "_aget_relevant_documents"}

\* The values of the field k and of the keyword argument page_size.
Ks == {{}, {0}, {1}, {10}}
PageSizeKwargs == {<<>>, [page_size |-> 3]}

NotSent == [type |-> None]

PeopleInit ==
    \/ /\ fnName = "PeopleProfileBasicRequest"
       /\ fnArgs \in BasicRequestKwargs
       /\ fnRemote = NoRemote
       /\ fnOut = NotEnded
       /\ fnReported = <<>>
    \/ /\ fnName = "_build_entities_request"
       /\ fnArgs \in [input : PeopleInputs, kwargs : PageSizeKwargs, k : Ks]
       /\ fnRemote = NoRemote
       /\ fnOut = NotEnded
       /\ fnReported = <<>>
    \/ /\ fnName \in PeopleEntryPoints
       /\ fnArgs \in [input : PeopleInputs, kwargs : {<<>>}, k : Ks]
       /\ fnRemote \in [gives : PeopleResponses, request : {NotSent}]
       /\ fnOut = NotEnded
       /\ fnReported = <<>>

\* PeopleProfileBasicRequest(**kwargs)
ConstructBasicRequest ==
    /\ fnName = "PeopleProfileBasicRequest"
    /\ fnOut = NotEnded
    /\ fnOut' = PeopleProfileBasicRequest(fnArgs)
    /\ UNCHANGED <<fnName, fnArgs, fnRemote, fnReported>>
    /\ UNCHANGED <<errVars, toolVars, chatVars, credVars, taskVars>>

\* retriever._build_entities_request(input_val, **kwargs)
BuildEntitiesRequest ==
    /\ fnName = "_build_entities_request"
    /\ fnOut = NotEnded
    /\ fnOut' = ReturnedValue(
                    _build_entities_request(fnArgs.input, fnArgs.kwargs, fnArgs.k))
    /\ UNCHANGED <<fnName, fnArgs, fnRemote, fnReported>>
    /\ UNCHANGED <<errVars, toolVars, chatVars, credVars, taskVars>>

\* retriever._get_relevant_documents(query, run_manager=...) and its async
\* twin: the request is built and sent, the outcome mapped.
PeopleGetRelevantDocuments(name) ==
    /\ fnName = name
    /\ fnOut = NotEnded
    /\ fnRemote' = [fnRemote EXCEPT !.request =
                      _build_entities_request(fnArgs.input, fnArgs.kwargs, fnArgs.k)]
    /\ fnOut' = PeopleRetrieve(fnArgs.input, fnArgs.kwargs, fnArgs.k, fnRemote.gives)
    /\ UNCHANGED <<fnName, fnArgs, fnReported>>
    /\ UNCHANGED <<errVars, toolVars, chatVars, credVars, taskVars>>

PeopleNext ==
    \/ ConstructBasicRequest
    \/ BuildEntitiesRequest
    \/ \E name \in PeopleEntryPoints : PeopleGetRelevantDocuments(name)

-----------------------------------------------------------------------------
(***************************************************************************)
(* retrievers/search.py: GleanSearchRetriever._build_document              *)
(*                                                                         *)
(* The hits are dicts of the search API; a key that is absent is {}.  The  *)
(* hits of the model have no document metadata block and no clustered      *)
(* results.                                                                *)
(***************************************************************************)

\* The most snippets in a hit.
MaxSnippets == 2

\* A snippet with a text, and one without the key "text".
Snippet(t) == [text |-> {t}]
NoTextSnippet == [text |-> {}]

Snippets ==
    {NoTextSnippet, Snippet(<<>>), Snippet(<<"A.">>), Snippet(<<"B.">>),
     Snippet(<<" ">>)}

Hits ==
    [snippets : {{}} \cup {{sn} : sn \in SeqUpTo(Snippets, MaxSnippets)},
     title : {{}, {<<>>}, {<<"T">>}},
     url : {{}, {<<"https://example.com/doc">>}},
     document : {{}, {[id |-> <<"doc-123">>, datasource |-> <<"slack">>]}},
     trackingToken : {{}}]

\* dict.get(key, default) where an absent key is {}.
GetOr(x, default) == IF x = {} THEN default ELSE CHOOSE v \in x : TRUE

\* The texts of the snippets that have a non-empty one.
RECURSIVE TextSnippets(_)
TextSnippets(snippets) ==
    IF snippets = <<>> THEN <<>>
    ELSE (IF GetOr(Head(snippets).text, <<>>) # <<>>
          THEN <<GetOr(Head(snippets).text, <<>>)>> ELSE <<>>)
         \o TextSnippets(Tail(snippets))

\* "\n".join(texts)
RECURSIVE JoinNewline(_)
JoinNewline(texts) ==
    IF texts = <<>> THEN <<>>
    ELSE IF Len(texts) = 1 THEN texts[1]
    ELSE texts[1] \o <<"\n">> \o JoinNewline(Tail(texts))

\* The metadata of the Document of a hit, as pairs in insertion order.
HitMetadata(res) ==
    LET document_data == GetOr(res.document, <<>>)
    IN  <<<<"title", GetOr(res.title, <<>>)>>,
          <<"url", GetOr(res.url, <<>>)>>,
          <<"source", <<"glean">>>>,
          <<"document_id",
            IF document_data = <<>> THEN <<>> ELSE document_data.id>>,
          <<"tracking_token", GetOr(res.trackingToken, <<>>)>>>>
        \o (IF document_data = <<>> THEN <<>>
            ELSE <<<<"datasource", document_data.datasource>>,
                   <<"doc_type", <<>>>>>>)

\* _build_document without the fallback to the title.
_build_document_no_fallback(res) ==
    LET snippets == GetOr(res.snippets, <<>>)
        text_snippets == TextSnippets(snippets)
        joined == IF text_snippets # <<>> THEN JoinNewline(text_snippets)
                  ELSE <<>>
    IN  Document(joined, HitMetadata(res))

\* GleanSearchRetriever._build_document
_build_document(res) ==
    LET snippets == GetOr(res.snippets, <<>>)
        text_snippets == TextSnippets(snippets)
        joined == IF text_snippets # <<>> THEN JoinNewline(text_snippets)
                  ELSE <<>>
        page_content == IF Strip(joined) = <<>>
                        THEN GetOr(res.title, <<>>) ELSE joined
    IN  Document(page_content, HitMetadata(res))

SearchDocInit ==
    /\ fnName = "_build_document"
    /\ fnArgs \in [result : Hits]
    /\ fnRemote = NoRemote
    /\ fnOut = NotEnded
    /\ fnReported = <<>>

\* retriever._build_document(result)
BuildDocument ==
    /\ fnName = "_build_document"
    /\ fnOut = NotEnded
    /\ fnOut' = ReturnedValue(_build_document(fnArgs.result))
    /\ UNCHANGED <<fnName, fnArgs, fnRemote, fnReported>>
    /\ UNCHANGED <<errVars, toolVars, chatVars, credVars, taskVars>>

SearchDocNext == BuildDocument

-----------------------------------------------------------------------------
(***************************************************************************)
(* retrievers/search.py: GleanSearchParameters and                         *)
(* GleanSearchRetriever._get_relevant_documents / _aget_relevant_documents *)
(*                                                                         *)
(* A value is a record tagged with its type: [int |-> 20], [str |-> "x"],  *)
(* [bool |-> TRUE], [none |-> TRUE].                                       *)
(***************************************************************************)

DEFAULT_PAGE_SIZE == 100

\* The most results in a search response.
MaxHits == 2

PyNone == [none |-> TRUE]

\* The fields of GleanSearchParameters, in their order.
SearchFields ==
    <<"query", "cursor", "disable_spellcheck", "max_snippet_size", "page_size",
      "result_tab_ids", "timeout_millis", "tracking_token", "request_options">>

IsSearchField(key) == \E i \in DOMAIN SearchFields : SearchFields[i] = key

\* The keyword arguments of a call: page_size (None, an int, or a value that
\* is not an int), a result-count hint k, a known parameter and a name that
\* is no field of GleanSearchParameters.
SearchKwargValues ==
    [page_size |-> {PyNone, [int |-> 20], [int |-> 150], [str |-> "many"]},
     k |-> {[int |-> 5]},
     disable_spellcheck |-> {[bool |-> TRUE]},
     datasource |-> {[str |-> "slack"]}]

SearchKwargs ==
    UNION {{kw \in [ks -> UNION {SearchKwargValues[k] : k \in DOMAIN SearchKwargValues}] :
               \A k \in ks : kw[k] \in SearchKwargValues[k]} :
           ks \in SUBSET DOMAIN SearchKwargValues}

\* dict.update
Update(d, other) ==
    [k \in DOMAIN d \cup DOMAIN other |->
        IF k \in DOMAIN other THEN other[k] ELSE d[k]]

\* GleanSearchParameters(**search_params): the values of the fields, None
\* for a field not given; a name that is no field is ignored (pydantic's
\* default for extra names); a page_size that is no int fails validation.
GleanSearchParameters(search_params) ==
    IF "page_size" \in DOMAIN search_params
       /\ "str" \in DOMAIN search_params["page_size"]
    THEN Raised("ValidationError", <<"page_size: Input should be a valid integer">>)
    ELSE ReturnedValue(
            [f \in {SearchFields[i] : i \in DOMAIN SearchFields} |->
                IF f \in DOMAIN search_params THEN search_params[f] ELSE PyNone])

\* The key of the payload for a field (search.py:33-49).
CamelCase(key) ==
    IF key = "page_size" THEN "pageSize"
    ELSE IF key = "disable_spellcheck" THEN "disableSpellcheck"
    ELSE IF key = "max_snippet_size" THEN "maxSnippetSize"
    ELSE IF key = "result_tab_ids" THEN "resultTabIds"
    ELSE IF key = "timeout_millis" THEN "timeoutMillis"
    ELSE IF key = "tracking_token" THEN "trackingToken"
    ELSE IF key = "request_options" THEN "requestOptions"
    ELSE key

\* GleanSearchParameters.to_dict
to_dict(params) ==
    LET kept == {f \in DOMAIN params : params[f] # PyNone}
    IN  [key \in {CamelCase(f) : f \in kept} |->
            params[CHOOSE f \in kept : CamelCase(f) = key]]

\* The payload of a call (search.py:172-180, 224-232).
SearchPayload(query, kwargs) ==
    LET with_default == IF "page_size" \notin DOMAIN kwargs
                        THEN [query |-> [str |-> query],
                              page_size |-> [int |-> DEFAULT_PAGE_SIZE]]
                        ELSE [query |-> [str |-> query]]
        search_params == Update(with_default, kwargs)
        params == GleanSearchParameters(search_params)
    IN  IF params.status = "raised" THEN params
        ELSE ReturnedValue(to_dict(params.value))

\* The results of a response: hits, and a result that is no dict.
NotADict == [repr |-> "str"]

SearchResults ==
    {[snippets |-> {<<Snippet(<<"A.">>), Snippet(<<"B.">>)>>},
      title |-> {<<"T">>},
      url |-> {<<"https://example.com/doc">>},
      document |-> {[id |-> <<"doc-123">>, datasource |-> <<"slack">>]},
      trackingToken |-> {}],
     [snippets |-> {}, title |-> {<<"T">>}, url |-> {}, document |-> {},
      trackingToken |-> {}],
     NotADict}

\* What client.post gives: a body with or without results, or a failure.
SearchOutcomes ==
    {[type |-> "body", results |-> {rs}] : rs \in SeqUpTo(SearchResults, MaxHits)}
    \cup {[type |-> "body", results |-> {}]}
    \cup {[type |-> "GleanHTTPError", status_code |-> "500", response |-> r] :
             r \in {"", "Server Error"}}
    \cup {[type |-> t, text |-> "failed"] :
             t \in {"GleanConnectionError", "GleanClientError", "Exception"}}

\* The loop over the results (search.py:197-204): the Documents and the
\* reports of the results that could not be processed.
RECURSIVE MapResults(_)
MapResults(results) ==
    IF results = <<>> THEN [documents |-> <<>>, reported |-> <<>>]
    ELSE LET rest == MapResults(Tail(results))
         IN  IF Head(results) = NotADict
             THEN [documents |-> rest.documents,
                   reported |-> <<<<"Error processing document: ",
                                    "'str' object has no attribute 'get'">>>>
                                \o rest.reported]
             ELSE [documents |-> <<_build_document(Head(results))>> \o rest.documents,
                   reported |-> rest.reported]

\* _get_relevant_documents(query, run_manager=..., **kwargs) and its async
\* twin: the payload sent (NotSent when none), the list returned and the
\* calls of run_manager.on_retriever_error.
SearchRetrieve(query, kwargs, outcome) ==
    LET payload == SearchPayload(query, kwargs)
    IN  IF payload.status = "raised"
        THEN [request |-> NotSent, out |-> ReturnedValue(<<>>),
              reported |-> <<<<"Error during retrieval: ">> \o payload.text>>]
        ELSE LET sent == [type |-> "search", data |-> payload.value]
             IN  IF outcome.type = "GleanHTTPError"
                 THEN [request |-> sent, out |-> ReturnedValue(<<>>),
                       reported |-> <<<<"Glean API error: ", "HTTP Error ",
                                        outcome.status_code>>
                                      \o (IF outcome.response # ""
                                          THEN <<": ", outcome.response>>
                                          ELSE <<>>)>>]
                 ELSE IF outcome.type = "GleanConnectionError"
                 THEN [request |-> sent, out |-> ReturnedValue(<<>>),
                       reported |-> <<<<"Glean connection error: ", outcome.text>>>>]
                 ELSE IF outcome.type = "GleanClientError"
                 THEN [request |-> sent, out |-> ReturnedValue(<<>>),
                       reported |-> <<<<"Glean client error: ", outcome.text>>>>]
                 ELSE IF outcome.type = "Exception"
                 THEN [request |-> sent, out |-> ReturnedValue(<<>>),
                       reported |-> <<<<"Error during retrieval: ", outcome.text>>>>]
                 ELSE LET mapped == MapResults(GetOr(outcome.results, <<>>))
                      IN  [request |-> sent,
                           out |-> ReturnedValue(mapped.documents),
                           reported |-> mapped.reported]

SearchEntryPoints ==
    {"GleanSearchRetriever._get_relevant_documents",
     "GleanSearchRetriever._aget_relevant_documents"}

SearchInit ==
    /\ fnName \in SearchEntryPoints
    /\ fnArgs \in [query : {"q1", ""}, kwargs : SearchKwargs]
    /\ fnRemote \in [gives : SearchOutcomes, request : {NotSent}]
    /\ fnOut = NotEnded
    /\ fnReported = <<>>

\* retriever._get_relevant_documents(query, run_manager=..., **kwargs) or
\* its async twin.
SearchGetRelevantDocuments(name) ==
    /\ fnName = name
    /\ fnOut = NotEnded
    /\ LET r == SearchRetrieve(fnArgs.query, fnArgs.kwargs, fnRemote.gives)
       IN  /\ fnRemote' = [fnRemote EXCEPT !.request = r.request]
           /\ fnOut' = r.out
           /\ fnReported' = r.reported
    /\ UNCHANGED <<fnName, fnArgs>>
    /\ UNCHANGED <<errVars, toolVars, chatVars, credVars, taskVars>>

SearchNext == \E name \in SearchEntryPoints : SearchGetRelevantDocuments(name)

-----------------------------------------------------------------------------
(***************************************************************************)
(* chat_models/agent_chat.py: ChatGleanAgent, and the non-streaming entry  *)
(* points of both chat models as single calls                              *)
(***************************************************************************)

\* The content of the fallback message (the dash of the source is an en
\* dash).
Placeholder == "(offline) Unable to reach Glean - returning placeholder response."

\* The messages of an agent run's response.
AgentMsgs ==
    {Msg("dict", "GLEAN_AI", "CONTENT", <<Frag("Hello "), Frag("world")>>),
     Msg("dict", "GLEAN_AI", "UPDATE", <<Frag("Searching"), Frag(None), NoTextFrag>>),
     Msg("dict", "GLEAN_AI", "CONTENT", <<Frag("")>>),
     Msg("dict", "USER", "CONTENT", <<Frag("question")>>),
     Msg("object", "GLEAN_AI", "CONTENT", <<Frag("Obj")>>)}

\* What agents.run / run_async gives: a response or a failure.
AgentResponses == [type : {"response"}, messages : SeqUpTo(AgentMsgs, MaxRespMsgs)]

\* The message lists and the keyword argument fields of the agent calls.
AgentInputs ==
    {<<[cls |-> "HumanMessage", role |-> None, content |-> [str |-> "Hello"]]>>,
     <<[cls |-> "SystemMessage", role |-> None, content |-> [str |-> "Hello"]],
       [cls |-> "HumanMessage", role |-> None, content |-> [str |-> "Hi"]],
       [cls |-> "HumanMessage", role |-> None, content |-> [str |-> ""]]>>,
     <<[cls |-> "AIMessage", role |-> None, content |-> [str |-> "Hello"]]>>}

AgentFields == {<<>>, [input |-> <<"given">>]}

\* ChatGleanAgent._extract_user_input
_extract_user_input(messages) ==
    LET human == SelectSeq(messages, LAMBDA m : m.cls = "HumanMessage")
        user_messages == [i \in DOMAIN human |-> <<PyStr(human[i].content)>>]
        joined == SelectSeq(JoinNewline(user_messages), LAMBDA piece : piece # "")
    IN  Strip(joined)

\* fields as sent: the user input is added under "input" unless the caller
\* gave one.
FieldsSent(messages, fields) ==
    LET user_input == _extract_user_input(messages)
    IN  IF user_input # <<>> /\ "input" \notin DOMAIN fields
        THEN [input |-> user_input] ELSE fields

\* content: the str texts of the fragments, in order.
RECURSIVE AgentContent(_)
AgentContent(fragments) ==
    IF fragments = <<>> THEN <<>>
    ELSE LET txt == IF Head(fragments).hasText THEN Head(fragments).text ELSE ""
         IN  (IF txt # None /\ txt # "" THEN <<txt>> ELSE <<>>)
             \o AgentContent(Tail(fragments))

\* isinstance(m, dict) and m.get("author") == "GLEAN_AI"
IsAiDict(m) == m.repr = "dict" /\ m.author = "GLEAN_AI"

AgentResult(content) ==
    [status |-> "returned",
     generations |-> <<[message |-> [type |-> "ai", content |-> content]]>>]

\* The response of an agent run as a ChatResult (agent_chat.py:54-72,
\* 98-116).
AgentResultOf(resp) ==
    LET ai_messages == SelectSeq(resp.messages, IsAiDict)
        content == IF ai_messages = <<>> THEN <<>>
                   ELSE AgentContent(ai_messages[Len(ai_messages)].fragments)
    IN  AgentResult(IF content = <<>> THEN <<"str(response)">> ELSE content)

\* ChatGleanAgent._generate without the fallback: the failure is raised.
ChatGleanAgent_generate_no_fallback(messages, stop, fields, outcome) ==
    IF stop
    THEN Raised("ValueError", <<"stop sequences are not supported by AgentChatModel">>)
    ELSE IF outcome.type = "GleanError"
    THEN Raised("ValueError", <<"Glean client error: ", outcome.text>>)
    ELSE IF outcome.type = "Exception"
    THEN Raised("Exception", <<outcome.text>>)
    ELSE AgentResultOf(outcome)

\* ChatGleanAgent._generate
ChatGleanAgent_generate(messages, stop, fields, outcome) ==
    IF stop
    THEN Raised("ValueError", <<"stop sequences are not supported by AgentChatModel">>)
    ELSE IF outcome.type = "GleanError"
    THEN Raised("ValueError", <<"Glean client error: ", outcome.text>>)
    ELSE IF outcome.type = "Exception"
    THEN AgentResult(<<Placeholder>>)
    ELSE AgentResultOf(outcome)

\* ChatGleanAgent._agenerate
ChatGleanAgent_agenerate(messages, stop, fields, outcome) ==
    IF stop
    THEN Raised("ValueError", <<"stop sequences are not supported by AgentChatModel">>)
    ELSE IF outcome.type = "GleanError"
    THEN Raised("ValueError", <<"Glean client error: ", outcome.text>>)
    ELSE IF outcome.type = "Exception"
    THEN AgentResult(<<Placeholder>>)
    ELSE AgentResultOf(outcome)

AgentEntryPoints == {"ChatGleanAgent._generate", "ChatGleanAgent._agenerate"}
ChatEntryPoints == {"ChatGlean._generate", "ChatGlean._agenerate"}

NonStreamingInit ==
    /\ \/ /\ fnName \in AgentEntryPoints
          /\ fnArgs \in [messages : AgentInputs, stop : BOOLEAN, fields : AgentFields]
          /\ fnRemote \in [gives : AgentResponses \cup RemoteFailures,
                           request : {NotSent}]
          /\ chat_id = None
       \/ /\ fnName \in ChatEntryPoints
          /\ fnArgs \in [messages : ChatInputs, stop : BOOLEAN]
          /\ fnRemote \in [gives : Responses \cup RemoteFailures,
                           request : {NotSent}]
          /\ chat_id \in {None, "c0"}
    /\ fnOut = NotEnded
    /\ fnReported = <<>>
    /\ pc = "unused"
    /\ call = NoCall
    /\ request = NoRequest
    /\ response = NoResponse
    /\ pos = <<1, 1, 1>>
    /\ chunks = <<>>
    /\ result = NoResult
    /\ callbacks = NoCallbacks
    /\ lastGen = None

\* ChatGleanAgent._generate / _agenerate(messages, stop, fields=...)
AgentGenerate(name) ==
    /\ fnName = name
    /\ fnName \in AgentEntryPoints
    /\ fnOut = NotEnded
    /\ fnRemote' = IF fnArgs.stop THEN fnRemote
                   ELSE [fnRemote EXCEPT !.request =
                            [type |-> "agents.run",
                             fields |-> FieldsSent(fnArgs.messages, fnArgs.fields),
                             stream |-> FALSE]]
    /\ fnOut' = IF name = "ChatGleanAgent._agenerate"
                THEN ChatGleanAgent_agenerate(fnArgs.messages, fnArgs.stop,
                                              fnArgs.fields, fnRemote.gives)
                ELSE ChatGleanAgent_generate(fnArgs.messages, fnArgs.stop,
                                             fnArgs.fields, fnRemote.gives)
    /\ UNCHANGED <<fnName, fnArgs, fnReported>>
    /\ UNCHANGED <<errVars, toolVars, chatVars, credVars, taskVars>>

\* ChatGlean._generate / _agenerate(messages, stop) as one call.
ChatGenerate(name) ==
    /\ fnName = name
    /\ fnName \in ChatEntryPoints
    /\ fnOut = NotEnded
    /\ IF fnArgs.stop
       THEN /\ fnOut' = Raised("ValueError",
                   <<"stop sequences are not supported by the Glean Chat Model">>)
            /\ UNCHANGED <<fnRemote, chat_id>>
       ELSE LET o == IF name = "ChatGlean._agenerate"
                     THEN AGenerateOutcome(fnRemote.gives, chat_id)
                     ELSE GenerateOutcome(fnRemote.gives, chat_id)
            IN  /\ fnRemote' = [fnRemote EXCEPT !.request =
                                  [type |-> "chat.create",
                                   params |-> _build_chat_params(fnArgs.messages, chat_id)]]
                /\ fnOut' = o.result
                /\ chat_id' = o.chat_id
    /\ UNCHANGED <<fnName, fnArgs, fnReported>>
    /\ UNCHANGED <<pc, call, request, response, pos, chunks, result, callbacks, lastGen>>
    /\ UNCHANGED <<errVars, toolVars, credVars, taskVars>>

NonStreamingNext ==
    \/ \E name \in AgentEntryPoints : AgentGenerate(name)
    \/ \E name \in ChatEntryPoints : ChatGenerate(name)

-----------------------------------------------------------------------------
(***************************************************************************)
(* Calls that run at the same time: two calls on one ChatGlean instance    *)
(* (chat_models/chat.py) or on one search retriever (retrievers/search.py).*)
(*                                                                         *)
(* A synchronous entry point runs on a thread of its own and can be        *)
(* preempted between any two statements; an asynchronous one runs on the   *)
(* event loop and gives way to other calls only where it awaits or yields. *)
(***************************************************************************)

Tasks == {1, 2}

ConcurrentKinds ==
    {"_generate", "_agenerate", "_stream", "_astream", "_aget_relevant_documents"}

AsyncKinds == {"_agenerate", "_astream", "_aget_relevant_documents"}

\* What the remote call of a task can give.
ConcurrentResponses ==
    {[type |-> "response",
      messages |-> <<Msg("dict", "GLEAN_AI", "CONTENT", <<Frag("Bye")>>)>>,
      chatId |-> id, chatSessionTrackingToken |-> "t1"] : id \in {"c1", "c2"}}
    \cup {[type |-> "response",
           messages |-> <<Msg("dict", "USER", "CONTENT", <<Frag("question")>>)>>,
           chatId |-> "c1", chatSessionTrackingToken |-> None]}

ConcurrentBodies ==
    {[type |-> "body",
      lines |-> <<Line("c2", "t2", TRUE,
                       <<Msg("dict", "GLEAN_AI", "CONTENT", <<Frag("A"), Frag("B")>>)>>)>>],
     [type |-> "body",
      lines |-> <<Line("c1", None, TRUE,
                       <<Msg("dict", "GLEAN_AI", "CONTENT", <<Frag("C")>>)>>),
                  BadLine>>]}

ConcurrentSearchOutcomes ==
    {[type |-> "body", results |-> {<<NotADict, rs>>}] : rs \in SearchResults \ {NotADict}}
    \cup {[type |-> "GleanClientError", text |-> "failed"]}

RemoteOutcomes(kind) ==
    IF kind \in GenerateKinds THEN ConcurrentResponses \cup RemoteFailures
    ELSE IF kind \in StreamKinds THEN ConcurrentBodies \cup RemoteFailures
    ELSE ConcurrentSearchOutcomes

\* A call that has not started.
NewTask(kind) ==
    [kind |-> kind, pc |-> "ready", sent |-> None, response |-> NoResponse,
     pos |-> <<1, 1, 1>>, chunks |-> <<>>, result |-> NoResult, reported |-> 0]

\* Suspends, but a coroutine gives way between any two statements as a
\* thread does.
Suspends_everywhere(kind, at) == TRUE

\* Whether a call of this entry point can give way to another call when it
\* is at this position: a thread anywhere; _agenerate at its one await
\* (chat.py:369); _astream at its await of the remote call (chat.py:530), at
\* its yield (chat.py:570) and at its await of on_llm_new_token
\* (chat.py:573); _aget_relevant_documents at its await of the executor
\* (search.py:238) and of on_retriever_error (search.py:260).  The awaits
\* of on_llm_error come when the loop has ended and belong to the step
\* that ends the call.
Suspends(kind, at) ==
    IF kind \notin AsyncKinds THEN TRUE
    ELSE IF kind = "_agenerate" THEN at = "awaiting"
    ELSE IF kind = "_astream" THEN at \in {"awaiting", "yielded", "notifying"}
    ELSE at \in {"awaiting", "reporting"}

\* The task when the remote call has given it `outcome`: the handlers of a
\* failure, the check for a qualifying message, or the start of the loop.
Received(task, outcome) ==
    LET t == [task EXCEPT !.response = outcome]
    IN  IF task.kind \in GenerateKinds
        THEN IF outcome.type = "GleanError"
             THEN [t EXCEPT !.pc = "done",
                            !.result = Raised("ValueError",
                                              <<"Glean client error: ", outcome.text>>)]
             ELSE IF outcome.type = "Exception"
             THEN [t EXCEPT !.pc = "done",
                            !.result = Raised("Exception", <<outcome.text>>)]
             ELSE IF SelectSeq(outcome.messages, IsAiContentDict) = <<>>
             THEN [t EXCEPT !.pc = "done",
                            !.result = Raised("ValueError",
                                  <<"No AI response found in the Glean response">>)]
             ELSE [t EXCEPT !.pc = "received"]
        ELSE IF task.kind \in StreamKinds
        THEN IF outcome.type = "body" THEN [t EXCEPT !.pc = "looping"]
             ELSE [t EXCEPT !.pc = "done",
                            !.reported = @ + 1,
                            !.result = Raised("ValueError",
                               <<IF outcome.type = "GleanError"
                                 THEN "Glean client error: "
                                 ELSE "Error during streaming: ", outcome.text>>)]
        ELSE IF outcome.type = "body" THEN [t EXCEPT !.pc = "mapping"]
             ELSE [t EXCEPT !.pc = "reporting"]

\* The next statements of a task that has its response, up to its next
\* position, with the held chat id `held`: the task and the chat id
\* afterwards.
Step(task, held) ==
    IF task.kind \in GenerateKinds
    THEN IF task.pc = "received"
         THEN \* chat.py:326-328, 397-399
              [task |-> [task EXCEPT !.pc = "stored"],
               chat_id |-> IF Truthy(task.response.chatId)
                           THEN task.response.chatId ELSE held]
         ELSE \* chat.py:330-341, 401-412: self.chat_id is read again
              LET ai_messages == SelectSeq(task.response.messages, IsAiContentDict)
                  generation ==
                    [message |-> _convert_glean_message_to_langchain(
                                    ai_messages[Len(ai_messages)]),
                     generation_info |->
                        [chat_id |-> held,
                         tracking_token |-> task.response.chatSessionTrackingToken]]
              IN  [task |-> [task EXCEPT !.pc = "done",
                                         !.result = [status |-> "returned",
                                                     generations |-> <<generation>>]],
                   chat_id |-> held]
    ELSE IF task.kind \in StreamKinds
    THEN IF task.pc = "yielded"
         THEN \* the consumer asks for the next chunk: on_llm_new_token
              [task |-> [task EXCEPT !.pc = "notifying"], chat_id |-> held]
         ELSE IF task.pc = "notifying"
         THEN [task |-> [task EXCEPT !.pc = "looping"], chat_id |-> held]
         ELSE LET lines == task.response.lines
                  e == IF task.kind = "_astream"
                       THEN ANextEvent(lines, task.pos[1], task.pos[2], task.pos[3])
                       ELSE NextEvent(lines, task.pos[1], task.pos[2], task.pos[3])
              IN  IF e.type = "yield"
                  THEN [task |-> [task EXCEPT
                                    !.pc = "yielded",
                                    !.pos = <<e.i, e.j, e.k + 1>>,
                                    !.chunks = Append(@, ChunkOf(lines[e.i], e.text, e.i))],
                        chat_id |-> IF Truthy(lines[e.i].chatId) /\ ~Truthy(held)
                                    THEN lines[e.i].chatId ELSE held]
                  ELSE IF e.type = "error"
                  THEN [task |-> [task EXCEPT
                                    !.pc = "done",
                                    !.pos = <<e.i, 1, 1>>,
                                    !.reported = @ + 2,
                                    !.result = Raised("ValueError",
                                                 <<"Error during streaming: ",
                                                   "Error parsing stream response: ">>)],
                        chat_id |-> held]
                  ELSE [task |-> [task EXCEPT !.pc = "done",
                                              !.pos = <<Len(lines) + 1, 1, 1>>,
                                              !.result = [status |-> "exhausted"]],
                        chat_id |-> held]
    ELSE IF task.pc = "reporting"
    THEN \* await run_manager.on_retriever_error(...)
         IF task.response.type = "body"
         THEN [task |-> [task EXCEPT !.pc = "mapping", !.reported = @ + 1,
                                     !.pos = <<task.pos[1] + 1, 1, 1>>],
               chat_id |-> held]
         ELSE [task |-> [task EXCEPT !.pc = "done", !.reported = @ + 1,
                                     !.result = ReturnedValue(<<>>)],
               chat_id |-> held]
    ELSE LET results == GetOr(task.response.results, <<>>)
             i == task.pos[1]
         IN  IF i > Len(results)
             THEN [task |-> [task EXCEPT !.pc = "done",
                                         !.result = ReturnedValue(task.chunks)],
                   chat_id |-> held]
             ELSE IF results[i] = NotADict
             THEN [task |-> [task EXCEPT !.pc = "reporting"], chat_id |-> held]
             ELSE [task |-> [task EXCEPT
                               !.pos = <<i + 1, 1, 1>>,
                               !.chunks = Append(@, _build_document(results[i]))],
                   chat_id |-> held]

\* The task runs on until it has ended or is where it can give way.
RECURSIVE RunToSuspension(_, _)
RunToSuspension(task, held) ==
    IF task.pc = "done" \/ Suspends(task.kind, task.pc)
    THEN [task |-> task, chat_id |-> held]
    ELSE LET s == Step(task, held)
         IN  RunToSuspension(s.task, s.chat_id)

ConcurrentInit ==
    /\ tasks \in [Tasks -> {NewTask(kind) : kind \in ConcurrentKinds}]
    /\ chat_id \in {None, "c0"}
    /\ pc = "unused"
    /\ call = NoCall
    /\ request = NoRequest
    /\ response = NoResponse
    /\ pos = <<1, 1, 1>>
    /\ chunks = <<>>
    /\ result = NoResult
    /\ callbacks = NoCallbacks
    /\ lastGen = None

\* The entry point is called: the request is built with the held chat id
\* and the remote call is made.
TaskStarts(t) ==
    /\ tasks[t].pc = "ready"
    /\ tasks' = [tasks EXCEPT ![t].pc = "awaiting",
                              ![t].sent = IF tasks[t].kind = "_aget_relevant_documents"
                                          THEN None ELSE chat_id]
    /\ UNCHANGED chatVars
    /\ UNCHANGED <<errVars, toolVars, credVars, fnVars>>

\* The remote call of the task returns or raises, and the task runs on.
TaskReceives(t) ==
    /\ tasks[t].pc = "awaiting"
    /\ \E outcome \in RemoteOutcomes(tasks[t].kind) :
          LET s == RunToSuspension(Received(tasks[t], outcome), chat_id)
          IN  /\ tasks' = [tasks EXCEPT ![t] = s.task]
              /\ chat_id' = s.chat_id
    /\ UNCHANGED <<pc, call, request, response, pos, chunks, result, callbacks, lastGen>>
    /\ UNCHANGED <<errVars, toolVars, credVars, fnVars>>

\* The task is scheduled again after it gave way.
TaskResumes(t) ==
    /\ tasks[t].pc \notin {"ready", "awaiting", "done"}
    /\ LET first == Step(tasks[t], chat_id)
           s == RunToSuspension(first.task, first.chat_id)
       IN  /\ tasks' = [tasks EXCEPT ![t] = s.task]
           /\ chat_id' = s.chat_id
    /\ UNCHANGED <<pc, call, request, response, pos, chunks, result, callbacks, lastGen>>
    /\ UNCHANGED <<errVars, toolVars, credVars, fnVars>>

ConcurrentNext ==
    \/ \E t \in Tasks : TaskStarts(t)
    \/ \E t \in Tasks : TaskReceives(t)
    \/ \E t \in Tasks : TaskResumes(t)

-----------------------------------------------------------------------------
(***************************************************************************)
(* The specifications, one per component.                                  *)
(***************************************************************************)

\* The classifier is not in use.
ErrIdle ==
    /\ errPc = "unused"
    /\ errIn = [glean |-> FALSE, status |-> {}, etype |-> None, raw |-> FALSE,
                msg |-> <<>>]
    /\ errCtx = ""
    /\ errOut = NoError

\* The tool is not in use.
ToolIdle ==
    /\ toolArg = [type |-> "NoneType", value |-> None]
    /\ toolKind = None
    /\ toolEnv = NotCalled
    /\ toolOut = NoOutput
    /\ toolSeen = <<>>

\* No component is being constructed.
CredIdle ==
    /\ credCls = None
    /\ credArgs = EmptyDict
    /\ credEnv = EmptyDict
    /\ credValues = NotConstructed
    /\ credOut = NotConstructed

\* No call of a stateless function.
FnIdle ==
    /\ fnName = None
    /\ fnArgs = EmptyDict
    /\ fnRemote = NoRemote
    /\ fnOut = NotEnded
    /\ fnReported = <<>>

TaskIdle == tasks = <<>>

InitErr == ErrInit /\ ToolIdle /\ ChatIdle /\ CredIdle /\ FnIdle /\ TaskIdle

SpecErr == InitErr /\ [][ErrNext]_vars

InitTool == ToolInit /\ ErrIdle /\ ChatIdle /\ CredIdle /\ FnIdle /\ TaskIdle

InitBuild == BuildInit /\ ErrIdle /\ ToolIdle /\ CredIdle /\ FnIdle /\ TaskIdle

SpecBuild == InitBuild /\ [][BuildNext]_vars

InitChat == ChatInit /\ ErrIdle /\ ToolIdle /\ CredIdle /\ FnIdle /\ TaskIdle

SpecChat == InitChat /\ [][ChatNext]_vars

SpecTool == InitTool /\ [][ToolNext]_vars

InitCred == CredInit /\ ErrIdle /\ ToolIdle /\ ChatIdle /\ FnIdle /\ TaskIdle

SpecCred == InitCred /\ [][CredNext]_vars

InitConf == ConfInit /\ ErrIdle /\ ToolIdle /\ ChatIdle /\ CredIdle /\ TaskIdle

SpecConf == InitConf /\ [][ConfNext]_vars

InitPeople == PeopleInit /\ ErrIdle /\ ToolIdle /\ ChatIdle /\ CredIdle /\ TaskIdle

SpecPeople == InitPeople /\ [][PeopleNext]_vars

InitSearchDoc == SearchDocInit /\ ErrIdle /\ ToolIdle /\ ChatIdle /\ CredIdle /\ TaskIdle

SpecSearchDoc == InitSearchDoc /\ [][SearchDocNext]_vars

InitSearch == SearchInit /\ ErrIdle /\ ToolIdle /\ ChatIdle /\ CredIdle /\ TaskIdle

SpecSearch == InitSearch /\ [][SearchNext]_vars

InitNonStreaming == NonStreamingInit /\ ErrIdle /\ ToolIdle /\ CredIdle /\ TaskIdle

SpecNonStreaming == InitNonStreaming /\ [][NonStreamingNext]_vars

InitConcurrent == ConcurrentInit /\ ErrIdle /\ ToolIdle /\ CredIdle /\ FnIdle

SpecConcurrent == InitConcurrent /\ [][ConcurrentNext]_vars

-----------------------------------------------------------------------------
(***************************************************************************)
(* Properties of the error classifier (SpecErr)                            *)
(***************************************************************************)

(***************************************************************************)
(* The classification rules as section 4.2 of the specification lists      *)
(* them: kind, the status that selects it, the lower-cased texts that      *)
(* select it; the first rule that matches decides.                         *)
(***************************************************************************)
RuleOrder ==
    << [kind |-> "GleanAuthenticationError", status |-> {401},
        texts |-> {"authentication", "unauthorized"}],
       [kind |-> "GleanNotFoundError", status |-> {404},
        texts |-> {"not found"}],
       [kind |-> "GleanRateLimitError", status |-> {429},
        texts |-> {"rate limit", "too many requests"}],
       [kind |-> "GleanTimeoutError", status |-> {},
        texts |-> {"timeout"}] >>

RuleMatches(r, e) ==
    \/ e.status \cap r.status # {}
    \/ \E i \in DOMAIN e.msg : Lower(e.msg[i]) \in r.texts

FirstMatchingKind(e) ==
    LET hits == {i \in DOMAIN RuleOrder : RuleMatches(RuleOrder[i], e)}
    IN  IF hits = {} THEN "GleanAPIError"
        ELSE RuleOrder[CHOOSE i \in hits : \A j \in hits : i <= j].kind

\* C1: a vendor error (GleanError) is given the kind of the first rule it
\* matches in the order authentication, not-found, rate-limit, timeout, and
\* GleanAPIError when it matches none, the message compared lower-cased; so
\* status 404 with 'unauthorized' in the message is an authentication error
\* and 'rate limit' with no status is a rate-limit error.
C1_FirstMatchingRule ==
    (errPc = "converted" /\ errIn.glean) =>
        /\ errOut.kind = FirstMatchingKind(errIn)
        /\ (404 \in errIn.status /\ Contains(LowerStr(errIn.msg), "unauthorized"))
              => errOut.kind = "GleanAuthenticationError"
        /\ (errIn.status = {} /\ Contains(LowerStr(errIn.msg), "rate limit")
              /\ ~RuleMatches(RuleOrder[1], errIn) /\ ~RuleMatches(RuleOrder[2], errIn))
              => errOut.kind = "GleanRateLimitError"
        /\ (\A i \in DOMAIN RuleOrder : ~RuleMatches(RuleOrder[i], errIn))
              => errOut.kind = "GleanAPIError"

\* A vendor error with status 404 whose message holds 'Unauthorized' (two
\* rules match) has been classified.
C1_Witness ==
    /\ errPc = "converted" /\ errIn.glean
    /\ errIn.status = {404}
    /\ Contains(errIn.msg, "Unauthorized")
    /\ errOut.kind = "GleanAuthenticationError"

\* C2: an exception that is not a vendor error becomes exactly a generic
\* GleanAPIError whose message starts with 'Unexpected error', whatever its
\* message and status attribute are.
C2_NonVendorIsGeneric ==
    (errPc = "converted" /\ ~errIn.glean) =>
        /\ errOut.kind = "GleanAPIError"
        /\ Head(errOut.message) = "Unexpected error"
        /\ errOut.original_error = errIn

\* A non-vendor exception with status 404 and 'Timeout' in its message has
\* been classified.
C2_Witness ==
    /\ errPc = "converted" /\ ~errIn.glean
    /\ errIn.status = {404}
    /\ Contains(errIn.msg, "Timeout")
    /\ errOut.kind = "GleanAPIError"

-----------------------------------------------------------------------------
(***************************************************************************)
(* Properties of the search tool (SpecTool)                                *)
(***************************************************************************)

\* C3: _run and _arun never raise: for a string, a dict or a malformed
\* value, and whatever exception the retriever raises, the call returns a
\* string; when the retriever raised, the string is 'Error searching Glean: '
\* followed by the exception's message.
C3_ToolNeverRaises ==
    toolKind # None =>
        /\ ~toolOut.raised
        /\ Len(toolOut.text) >= 1
        /\ toolEnv.raises =>
              toolOut.text = <<"Error searching Glean: ", toolEnv.exc>>
        /\ toolArg.type \in {"int", "NoneType"} =>
              toolOut.text[1] = "Error searching Glean: "

\* The retriever raised during a call made with a dict, and the call
\* returned the error string.
C3_Witness ==
    /\ toolKind = "_arun"
    /\ toolArg.type = "dict"
    /\ toolEnv.raises
    /\ toolOut = Returned(<<"Error searching Glean: ", "Test error">>)

-----------------------------------------------------------------------------
(***************************************************************************)
(* Properties of request building (SpecBuild)                              *)
(***************************************************************************)

\* The role of a LangChain message: its class, and for a ChatMessage its
\* role text without regard to case.
RoleOf(message) ==
    CASE message.cls = "HumanMessage" -> "human"
      [] message.cls = "AIMessage" -> "assistant"
      [] message.cls = "SystemMessage" -> "system"
      [] message.cls = "ChatMessage" /\ message.role \in {"user"} -> "human"
      [] message.cls = "ChatMessage" /\ message.role \in {"Assistant", "ai"}
            -> "assistant"
      [] OTHER -> "unrecognized"

\* C9: every input message becomes exactly one vendor turn, in the same
\* order, with a single fragment holding the message text; human gives
\* USER/CONTENT, assistant GLEAN_AI/CONTENT, system USER/CONTEXT, anything
\* else USER/CONTENT, and CONTEXT comes from system messages only.
C9_TurnMapping ==
    pc = "built" =>
        /\ Len(request.messages) = Len(call.messages)
        /\ \A i \in DOMAIN call.messages :
              LET m == call.messages[i]
                  t == request.messages[i]
                  role == RoleOf(m)
              IN  /\ Len(t.fragments) = 1
                  /\ t.fragments[1].text = PyStr(m.content)
                  /\ role = "human" => t.author = "USER" /\ t.message_type = "CONTENT"
                  /\ role = "assistant" =>
                        t.author = "GLEAN_AI" /\ t.message_type = "CONTENT"
                  /\ role = "system" => t.author = "USER" /\ t.message_type = "CONTEXT"
                  /\ role = "unrecognized" =>
                        t.author = "USER" /\ t.message_type = "CONTENT"
                  /\ t.message_type = "CONTEXT" <=> m.cls = "SystemMessage"

\* A request was built from a system message followed by a message of an
\* unrecognized role.
C9_Witness ==
    /\ pc = "built"
    /\ Len(call.messages) = 2
    /\ call.messages[1].cls = "SystemMessage"
    /\ call.messages[2].cls = "ChatMessage" /\ call.messages[2].role = "moderator"
    /\ request.messages[1].message_type = "CONTEXT"
    /\ request.messages[2].author = "USER"

-----------------------------------------------------------------------------
(***************************************************************************)
(* Properties of the chat model (SpecChat)                                 *)
(***************************************************************************)

IsAssistantContent(msg) == msg.author = "GLEAN_AI" /\ msg.messageType = "CONTENT"

\* The in-order concatenation of the texts of a message's fragments.
RECURSIVE ConcatTexts(_)
ConcatTexts(fragments) ==
    IF fragments = <<>> THEN <<>>
    ELSE (IF Head(fragments).hasText /\ Head(fragments).text \notin {None, ""}
          THEN <<Head(fragments).text>> ELSE <<>>)
         \o ConcatTexts(Tail(fragments))

\* C5.  For every non-streaming response with at least one message of author
\* GLEAN_AI and type CONTENT, _generate / _agenerate returns exactly one
\* generation, an assistant message whose text is the concatenation of the
\* fragment texts of the last such message.
C5_LastAssistantMessage ==
    (/\ pc = "done"
     /\ call.kind \in GenerateKinds
     /\ response.type = "response"
     /\ \E i \in DOMAIN response.messages :
           IsAssistantContent(response.messages[i]))
    => LET last == CHOOSE i \in DOMAIN response.messages :
                      /\ IsAssistantContent(response.messages[i])
                      /\ \A m \in DOMAIN response.messages :
                            IsAssistantContent(response.messages[m]) => m <= i
       IN  /\ result.status = "returned"
           /\ Len(result.generations) = 1
           /\ result.generations[1].message =
                 [type |-> "ai",
                  content |-> ConcatTexts(response.messages[last].fragments)]

\* The lines of a body, up to line n, that carry a non-empty chat id.
IdLines(lines, n) ==
    {i \in 1..n : lines[i].kind = "json" /\ lines[i].chatId \notin {None, ""}}

\* C6.  In a streamed body the session id is that of the first line carrying
\* a non-empty chat id, and every chunk emitted from that line or a later
\* one has it as its chat_id metadata.
C6_SessionIdOnEveryChunk ==
    (call.kind \in StreamKinds /\ response.type = "body")
    => \A n \in DOMAIN chunks :
          LET ids == IdLines(response.lines, chunks[n].line)
          IN  ids # {} =>
                 LET first == CHOOSE i \in ids : \A m \in ids : i <= m
                 IN  chunks[n].generation_info.chat_id
                        = response.lines[first].chatId

\* The places <<line, message, fragment>> of a body whose fragment has a
\* non-empty text and belongs to a message of author GLEAN_AI and type
\* CONTENT.
Places(lines) ==
    UNION {UNION {{<<i, j, k>> :
                     k \in {k \in DOMAIN lines[i].messages[j].fragments :
                               /\ lines[i].messages[j].fragments[k].hasText
                               /\ lines[i].messages[j].fragments[k].text
                                     \notin {None, ""}}} :
                  j \in {j \in DOMAIN lines[i].messages :
                            IsAssistantContent(lines[i].messages[j])}} :
           i \in {i \in DOMAIN lines :
                     lines[i].kind = "json" /\ lines[i].hasMessages}}

\* Line order, then message order, then fragment order.
Before(p, q) ==
    \/ p[1] < q[1]
    \/ p[1] = q[1] /\ p[2] < q[2]
    \/ p[1] = q[1] /\ p[2] = q[2] /\ p[3] < q[3]

\* The rank of a place among the places of a body, in that order.
Rank(lines, p) == 1 + Cardinality({q \in Places(lines) : Before(q, p)})

TextAt(lines, p) == lines[p[1]].messages[p[2]].fragments[p[3]].text

\* The n-th chunk is the chunk of the n-th place of the lines.
ChunksMatchPlaces(lines) ==
    \A n \in DOMAIN chunks :
        \E p \in Places(lines) :
            /\ Rank(lines, p) = n
            /\ chunks[n].text = TextAt(lines, p)
            /\ chunks[n].line = p[1]

AllLinesParse(lines) == \A i \in DOMAIN lines : lines[i].kind # "bad"

\* C7.  For a body in which all lines parse, _stream / _astream emits one
\* chunk per fragment with non-empty text of a GLEAN_AI / CONTENT message, in
\* line, message, fragment order, and nothing else: the chunks so far are
\* always the first of those fragments, and when the stream has ended they
\* are all of them.
C7_OneChunkPerFragment ==
    (/\ call.kind \in StreamKinds
     /\ response.type = "body"
     /\ AllLinesParse(response.lines))
    => /\ ChunksMatchPlaces(response.lines)
       /\ pc = "done" =>
             /\ result.status = "exhausted"
             /\ Len(chunks) = Cardinality(Places(response.lines))

\* A stream has ended after the chunks C, D and E, the lines having also
\* held a user message, an empty text, a fragment without text, an update
\* message and a message that is not an object.
C7_Witness ==
    /\ pc = "done"
    /\ result.status = "exhausted"
    /\ response.type = "body"
    /\ Len(chunks) = 3
    /\ chunks[1].text = "C" /\ chunks[2].text = "D" /\ chunks[3].text = "E"

\* C8.  If line k of a streamed body fails to parse, no chunk of line k or
\* of a later line is ever emitted, the stream does not end normally, and
\* once it has ended it has raised ValueError at the first such line, the
\* consumer having seen exactly the chunks of the lines before it.
C8_ParseFailureAborts ==
    (/\ call.kind \in StreamKinds
     /\ response.type = "body"
     /\ ~AllLinesParse(response.lines))
    => LET bad == {i \in DOMAIN response.lines : response.lines[i].kind = "bad"}
           k == CHOOSE i \in bad : \A m \in bad : i <= m
           before == SubSeq(response.lines, 1, k - 1)
       IN  /\ \A n \in DOMAIN chunks : \A b \in bad : chunks[n].line < b
           /\ result.status # "exhausted"
           /\ ChunksMatchPlaces(before)
           /\ pc = "done" =>
                 /\ result.status = "raised"
                 /\ result.exc = "ValueError"
                 /\ pos[1] = k
                 /\ Len(chunks) = Cardinality(Places(before))

\* A stream has raised at its second line after one chunk, and the third
\* line, which has fragments, gave none.
C8_Witness ==
    /\ pc = "done"
    /\ result.status = "raised"
    /\ response.type = "body"
    /\ Len(response.lines) = 3
    /\ response.lines[2] = BadLine
    /\ Places(<<response.lines[3]>>) # {}
    /\ Len(chunks) = 1
    /\ chunks[1].line = 1

-----------------------------------------------------------------------------
(***************************************************************************)
(* Properties of the construction of a component (SpecCred)                *)
(***************************************************************************)

\* An argument was passed for the field, and it is not None.
Supplied(f) == f \in DOMAIN credArgs /\ credArgs[f] # None

\* An argument was passed for the field, and it is neither None nor empty.
SuppliedNonEmpty(f) == f \in DOMAIN credArgs /\ credArgs[f] \notin {None, ""}

EnvPresent(f) == EnvKey(f) \in DOMAIN credEnv /\ credEnv[EnvKey(f)] # ""

\* C10 as stated.  For each credential field of every component, when both
\* a constructor argument and the environment variable are present, the
\* resolved field equals the argument, for every supplied argument value,
\* and the environment variable is used only when no argument was supplied.
C10_ArgumentOverridesEnv ==
    credValues.status = "returned" =>
        \A f \in CredFields :
            /\ (Supplied(f) /\ EnvPresent(f))
                  => credValues.values[f] = credArgs[f]
            /\ (EnvPresent(f) /\ credValues.values[f] = credEnv[EnvKey(f)])
                  => ~Supplied(f)

\* C10, amended.  For each credential field of every component that reads
\* the environment, a constructor argument that is not empty is the resolved
\* field, whatever the environment holds; an argument that is None or the
\* empty string counts as not supplied, and the environment variable, when
\* set and not empty, is then the resolved field; the constructed object
\* has the resolved fields.
C10_NonEmptyArgumentOverridesEnv ==
    /\ credValues.status = "returned" =>
          \A f \in CredFields :
              /\ SuppliedNonEmpty(f) => credValues.values[f] = credArgs[f]
              /\ (~SuppliedNonEmpty(f) /\ EnvPresent(f))
                    => credValues.values[f] = credEnv[EnvKey(f)]
    /\ credOut.status = "constructed" =>
          \A f \in CredFields : credOut[f] = credValues.values[f]

\* A ChatGlean was constructed with an instance argument while
\* GLEAN_INSTANCE was set to something else, and has the argument.
C10_Witness ==
    /\ credCls = "ChatGlean"
    /\ credOut.status = "constructed"
    /\ "instance" \in DOMAIN credArgs
    /\ credArgs["instance"] = "acme"
    /\ "GLEAN_INSTANCE" \in DOMAIN credEnv
    /\ credEnv["GLEAN_INSTANCE"] = "env-co"
    /\ credOut.instance = "acme"

-----------------------------------------------------------------------------
(***************************************************************************)
(* Properties of validate_configuration (SpecConf)                         *)
(***************************************************************************)

\* None, empty, or nothing but whitespace.
IsBlank(x) == x = {} \/ \A s \in x : \A i \in DOMAIN s : s[i] = " "

\* The length of a string without its leading and trailing whitespace.
TrimmedLen(s) ==
    LET ns == {i \in DOMAIN s : s[i] # " "}
    IN  IF ns = {} THEN 0
        ELSE (CHOOSE i \in ns : \A j \in ns : j <= i)
             - (CHOOSE i \in ns : \A j \in ns : i <= j) + 1

\* Letters, digits, hyphens and underscores only, with a letter or a digit.
WellFormedInstance(s) ==
    /\ \A i \in DOMAIN s : s[i] \in {"a", "1", "-", "_"}
    /\ \E i \in DOMAIN s : s[i] \in {"a", "1"}

ConfRejected ==
    fnOut.status = "raised" /\ fnOut.exc = "GleanConfigurationError"

\* validate_configuration raises GleanConfigurationError if and only if the
\* instance or the API token is empty or whitespace-only (it does not: see
\* ConfRejectsBlankOrMalformed).
ConfRejectsExactlyBlank ==
    (fnName = "validate_configuration" /\ fnOut # NotEnded)
    => /\ (IsBlank(fnArgs.instance) \/ IsBlank(fnArgs.api_token)) <=> ConfRejected
       /\ fnOut.status \in {"raised", "returned"}
       /\ fnOut.status = "raised" => ConfRejected

\* validate_configuration raises GleanConfigurationError if
\* and only if the instance or the API token is empty or whitespace-only,
\* or the instance has a character other than letters, digits, hyphens and
\* underscores or has no letter or digit, or the trimmed token is shorter
\* than 10 characters; every other pair is accepted.
ConfRejectsBlankOrMalformed ==
    (fnName = "validate_configuration" /\ fnOut # NotEnded)
    => /\ ConfRejected <=>
             \/ IsBlank(fnArgs.instance)
             \/ IsBlank(fnArgs.api_token)
             \/ \E s \in fnArgs.instance : ~WellFormedInstance(s)
             \/ \E s \in fnArgs.api_token : TrimmedLen(s) < 10
       /\ ~ConfRejected => fnOut = ReturnedValue(None)

\* A whitespace-only token was rejected.
ConfWitness ==
    /\ fnName = "validate_configuration"
    /\ fnArgs.instance = {<<"a", "1">>}
    /\ fnArgs.api_token = {<<" ", " ">>}
    /\ ConfRejected

-----------------------------------------------------------------------------
(***************************************************************************)
(* Properties of the construction of a component: validation (SpecCred)    *)
(***************************************************************************)

\* The value a field resolves to: the argument when one is supplied and not
\* empty, else the environment variable, else nothing.
ResolvedField(f) ==
    IF SuppliedNonEmpty(f) THEN credArgs[f]
    ELSE IF EnvPresent(f) THEN credEnv[EnvKey(f)]
    ELSE ""

\* Empty or whitespace-only.
BlankValue(v) == v \in {None, "", "   "}

\* C11.  Construction fails with a Configuration error if and only if the
\* resolved instance or the resolved API token is empty or whitespace-only:
\* every such pair is rejected with GleanConfigurationError, and every pair
\* in which both are non-empty after trimming passes validation.
C11_ConfigurationErrorIffBlank ==
    credValues # NotConstructed =>
        ((BlankValue(ResolvedField("instance"))
             \/ BlankValue(ResolvedField("api_token")))
         <=> (credValues.status = "raised"
                 /\ credValues.exc = "GleanConfigurationError"))

-----------------------------------------------------------------------------
(***************************************************************************)
(* Properties of the people retriever (SpecPeople)                         *)
(***************************************************************************)

\* The argument is absent, None, the empty string or the empty map.
ArgEmpty(key) ==
    \/ key \notin DOMAIN fnArgs
    \/ fnArgs[key] \in {[none |-> TRUE], [str |-> ""], [dict |-> <<>>]}

\* C12.  Constructing a PeopleProfileBasicRequest fails validation exactly
\* when both query and filters are empty (absent, None, empty string or
\* empty map), and succeeds whenever at least one of them is not.
C12_FailsIffBothEmpty ==
    (fnName = "PeopleProfileBasicRequest" /\ fnOut # NotEnded)
    => /\ fnOut.status \in {"raised", "returned"}
       /\ fnOut.status = "raised" <=> (ArgEmpty("query") /\ ArgEmpty("filters"))

\* A request with filters only was constructed.
C12_Witness ==
    /\ fnName = "PeopleProfileBasicRequest"
    /\ fnOut.status = "returned"
    /\ "query" \notin DOMAIN fnArgs
    /\ "filters" \in DOMAIN fnArgs
    /\ fnArgs["filters"] = [dict |-> <<<<"department", "Engineering">>>>]
    /\ fnOut.value.filters = {<<<<"department", "Engineering">>>>}

\* The people of the response of a call that returned documents.
PeopleOfResponse ==
    IF fnRemote.gives.results = {} THEN <<>>
    ELSE CHOOSE r \in fnRemote.gives.results : TRUE

PeopleReturned ==
    /\ fnName \in PeopleEntryPoints
    /\ fnOut.status = "returned"
    /\ fnRemote.gives.type = "response"

\* The non-empty fields of a person's metadata block, in its order.
NonEmptyFields(person) ==
    IF person.metadata = {} THEN <<>>
    ELSE LET block == CHOOSE b \in person.metadata : TRUE
         IN  SelectSeq(block, LAMBDA kv : Len(kv[2]) > 0)

\* The title of a person: that of the metadata block, or empty.
TitleOf(person) ==
    LET fields == NonEmptyFields(person)
        at == {i \in DOMAIN fields : fields[i][1] = "title"}
    IN  IF at = {} THEN <<>> ELSE fields[CHOOSE i \in at : TRUE][2]

\* A text without its leading and trailing whitespace.
Trimmed(s) ==
    LET ns == {i \in DOMAIN s : s[i] \notin {" ", "\n"}}
    IN  IF ns = {} THEN <<>>
        ELSE SubSeq(s, CHOOSE i \in ns : \A j \in ns : i <= j,
                       CHOOSE i \in ns : \A j \in ns : j <= i)

\* C13 as stated.  The documents are the people of the response, one to one
\* and in order; each body is the name followed by a newline and the title,
\* newline and title being omitted when the title is absent or empty; each
\* metadata map holds exactly the non-empty fields of the metadata block.
C13_BodyIsNameNewlineTitle ==
    PeopleReturned =>
        /\ Len(fnOut.value) = Len(PeopleOfResponse)
        /\ \A i \in DOMAIN fnOut.value :
              LET person == PeopleOfResponse[i]
              IN  /\ fnOut.value[i].metadata = NonEmptyFields(person)
                  /\ person.name # {} =>
                        fnOut.value[i].page_content =
                           (CHOOSE n \in person.name : TRUE)
                           \o (IF TitleOf(person) = <<>> THEN <<>>
                               ELSE <<"\n">> \o TitleOf(person))

\* C13, amended.  The documents are the people of the response, one to one
\* and in order; each body is the name ("Unknown" when the entry has none),
\* a newline and the title (empty when absent), the whole without its
\* leading and trailing whitespace; each metadata map holds exactly the
\* non-empty fields of the metadata block.
C13_BodyIsTrimmedNameNewlineTitle ==
    PeopleReturned =>
        /\ Len(fnOut.value) = Len(PeopleOfResponse)
        /\ \A i \in DOMAIN fnOut.value :
              LET person == PeopleOfResponse[i]
                  name == IF person.name = {} THEN <<"Unknown">>
                          ELSE CHOOSE n \in person.name : TRUE
              IN  /\ fnOut.value[i].metadata = NonEmptyFields(person)
                  /\ fnOut.value[i].page_content =
                        Trimmed(name \o <<"\n">> \o TitleOf(person))

\* Two people were mapped in order, the second one without a title.
C13_Witness ==
    /\ PeopleReturned
    /\ Len(fnOut.value) = 2
    /\ fnOut.value[1] =
          Document(<<"Jane Doe", "\n", "Software Engineer">>,
                   <<<<"title", <<"Software Engineer">>>>,
                     <<"email", <<"jane@example.com">>>>>>)
    /\ fnOut.value[2] =
          Document(<<"John Smith">>, <<<<"email", <<"john@example.com">>>>>>)

\* C15.  When the configured result limit k is smaller than the number of
\* mapped results, the returned list is exactly the first k mapped results,
\* in order.
C15_CappedAtK ==
    (PeopleReturned /\ fnArgs.k \notin {{}, {0}})
    => LET k == CHOOSE n \in fnArgs.k : TRUE
       IN  k < Len(PeopleOfResponse) =>
              /\ Len(fnOut.value) = k
              /\ \A i \in 1..k :
                    fnOut.value[i].metadata = NonEmptyFields(PeopleOfResponse[i])

\* The exception classes of exceptions.py.
IntegrationErrors ==
    {"GleanIntegrationError", "GleanAPIError", "GleanAuthenticationError",
     "GleanNotFoundError", "GleanRateLimitError", "GleanConfigurationError",
     "GleanValidationError", "GleanTimeoutError"}

\* C16.  Whenever the remote call of a retriever entry point fails, the
\* entry point raises an error of the integration-error taxonomy; it never
\* returns a normal result such as an empty list.
C16_RemoteFailureIsRaised ==
    (/\ fnName \in PeopleEntryPoints
     /\ fnOut # NotEnded
     /\ fnRemote.gives.type \in {"GleanError", "Exception"})
    => /\ fnOut.status = "raised"
       /\ fnOut.exc \in IntegrationErrors

-----------------------------------------------------------------------------
(***************************************************************************)
(* Properties of the search retriever's documents (SpecSearchDoc)          *)
(***************************************************************************)

\* The non-empty snippet texts of a hit, in snippet order.
NonEmptyTexts(hit) ==
    IF hit.snippets = {} THEN <<>>
    ELSE LET sn == CHOOSE x \in hit.snippets : TRUE
             with == SelectSeq(sn, LAMBDA x : x.text # {} /\ x.text # {<<>>})
         IN  [i \in DOMAIN with |-> CHOOSE t \in with[i].text : TRUE]

\* Texts joined by newlines.
RECURSIVE Lines(_)
Lines(texts) ==
    IF Len(texts) = 0 THEN <<>>
    ELSE IF Len(texts) = 1 THEN texts[1]
    ELSE Lines(SubSeq(texts, 1, Len(texts) - 1)) \o <<"\n">> \o texts[Len(texts)]

TitleOrEmpty(hit) == IF hit.title = {} THEN <<>> ELSE CHOOSE t \in hit.title : TRUE

DocumentBuilt == fnName = "_build_document" /\ fnOut.status = "returned"

\* C14 as stated.  The body of the Document of a hit is its non-empty
\* snippet texts joined by newlines, in order; when there is no non-empty
\* snippet text it is the title, and the empty string when there is no
\* title either.
C14_BodyIsSnippetsOrTitle ==
    DocumentBuilt =>
        fnOut.value.page_content =
            IF NonEmptyTexts(fnArgs.result) # <<>>
            THEN Lines(NonEmptyTexts(fnArgs.result))
            ELSE TitleOrEmpty(fnArgs.result)

\* C14, amended.  The body of the Document of a hit is its non-empty
\* snippet texts joined by newlines, in order; when that text is empty or
\* nothing but whitespace it is the title, and the empty string when there
\* is no title either.
C14_BodyIsSnippetsOrTitleWhenBlank ==
    DocumentBuilt =>
        fnOut.value.page_content =
            IF Trimmed(Lines(NonEmptyTexts(fnArgs.result))) # <<>>
            THEN Lines(NonEmptyTexts(fnArgs.result))
            ELSE TitleOrEmpty(fnArgs.result)

\* Two snippets A. and B. gave the body A.\nB. although the hit has a title.
C14_Witness ==
    /\ DocumentBuilt
    /\ fnArgs.result.snippets = {<<Snippet(<<"A.">>), Snippet(<<"B.">>)>>}
    /\ fnArgs.result.title = {<<"T">>}
    /\ fnOut.value.page_content = <<"A.", "\n", "B.">>

-----------------------------------------------------------------------------
(***************************************************************************)
(* Reports of failures and the asynchronous entry points (SpecChat)        *)
(***************************************************************************)

\* The call has ended with an error after its remote call was made.
FailedAfterRemoteCall ==
    pc = "done" /\ result.status = "raised" /\ response.type # None

\* C17 as stated, for the streaming entry points.  When the remote call or
\* the processing of its body fails, on_llm_error is called exactly once
\* for that invocation.
C17_FailureReportedOnce ==
    (FailedAfterRemoteCall /\ call.kind \in StreamKinds)
        => callbacks.on_llm_error = 1

\* What one run of the loop of _stream from place p does with the held chat
\* id `held` and the chunks `sofar`.
SyncLoop(lines, p, held, sofar) ==
    LET e == NextEvent(lines, p[1], p[2], p[3])
    IN  IF e.type = "yield"
        THEN [pc |-> "yielded",
              chat_id |-> IF Truthy(lines[e.i].chatId) /\ ~Truthy(held)
                          THEN lines[e.i].chatId ELSE held,
              chunks |-> Append(sofar, ChunkOf(lines[e.i], e.text, e.i)),
              ends |-> None,
              line |-> e.i]
        ELSE [pc |-> "done",
              chat_id |-> held,
              chunks |-> sofar,
              ends |-> IF e.type = "error" THEN "raised" ELSE "exhausted",
              line |-> IF e.type = "error" THEN e.i ELSE Len(lines) + 1]

\* C19.  The asynchronous entry points of ChatGlean do what the synchronous
\* ones do: _agenerate ends with the result or error and the held chat id
\* that _generate gives for the same response and held chat id, and every
\* run of the loop of _astream yields the chunk, fails at the line, or ends,
\* and leaves the held chat id, as the loop of _stream does from the same
\* place.
C19_AsyncAsSync ==
    [][/\ (call.kind = "_agenerate" /\ pc = "awaiting" /\ pc' = "done")
            => /\ result' = GenerateOutcome(response', chat_id).result
               /\ chat_id' = GenerateOutcome(response', chat_id).chat_id
       /\ (call.kind = "_astream" /\ pc \in {"awaiting", "yielded"}
             /\ response'.type = "body")
            => LET s == SyncLoop(response'.lines,
                                 IF pc = "awaiting" THEN <<1, 1, 1>> ELSE pos,
                                 chat_id, chunks)
               IN  /\ pc' = s.pc
                   /\ chat_id' = s.chat_id
                   /\ chunks' = s.chunks
                   /\ pos'[1] = s.line
                   /\ s.pc = "done" => result'.status = s.ends]_vars

\* An _astream call has yielded two chunks from different lines, taken the
\* chat id of the first, and failed at the line that is not JSON.
C19_Witness ==
    /\ call.kind = "_astream"
    /\ pc = "done"
    /\ result.status = "raised"
    /\ Len(chunks) = 2
    /\ chunks[1].line # chunks[2].line
    /\ chat_id = chunks[1].generation_info.chat_id
    /\ chat_id # chunks[2].generation_info.chat_id
    /\ response.lines[pos[1]] = BadLine

-----------------------------------------------------------------------------
(***************************************************************************)
(* Failures of the remote call on the non-streaming chat paths             *)
(* (SpecNonStreaming)                                                      *)
(***************************************************************************)

\* The call has made its remote call and has ended.
EndedAfterRemoteCall == fnOut # NotEnded /\ fnRemote.request # NotSent

\* A normal result of one generation that holds the placeholder message.
IsPlaceholderResult(out) ==
    /\ out.status = "returned"
    /\ Len(out.generations) = 1
    /\ out.generations[1].message.content = <<Placeholder>>

\* What C18 gives for a failure of the remote call.
FallbackRule ==
    /\ fnRemote.gives.type = "Exception" => IsPlaceholderResult(fnOut)
    /\ fnRemote.gives.type = "GleanError" => fnOut.status = "raised"

\* C18 as stated.  On every non-streaming chat entry point, sync or async,
\* a failure of the remote call that is not a GleanError gives a normal
\* result with one generation holding the placeholder message, and a
\* GleanError is raised.
C18_PlaceholderOnNonVendorFailure ==
    EndedAfterRemoteCall => FallbackRule

\* C18, amended.  On the non-streaming entry points of ChatGleanAgent, sync
\* and async, a failure of the remote call that is not a GleanError gives a
\* normal result with one generation holding the placeholder message, and
\* a GleanError is raised; on those of ChatGlean both are raised, the
\* failure that is not a GleanError unchanged.
C18_PlaceholderOnAgentOnly ==
    EndedAfterRemoteCall =>
        /\ fnName \in AgentEntryPoints => FallbackRule
        /\ fnName \in ChatEntryPoints =>
              /\ fnRemote.gives.type = "Exception"
                    => fnOut = Raised("Exception", <<fnRemote.gives.text>>)
              /\ fnRemote.gives.type = "GleanError" => fnOut.status = "raised"

\* The remote call of ChatGleanAgent._agenerate failed with an exception
\* that is not a GleanError and the call returned the placeholder.
C18_Witness ==
    /\ fnName = "ChatGleanAgent._agenerate"
    /\ EndedAfterRemoteCall
    /\ fnRemote.gives.type = "Exception"
    /\ IsPlaceholderResult(fnOut)

-----------------------------------------------------------------------------
(***************************************************************************)
(* The facet filters of a people request (SpecPeople)                      *)
(***************************************************************************)

\* A request has been built from a structured people request.
BuiltFromBasicRequest ==
    /\ fnName = "_build_entities_request"
    /\ fnOut.status = "returned"
    /\ fnArgs.input.type = "PeopleProfileBasicRequest"

\* The filter map of the structured request; empty when it has none.
FilterMapOf(data) ==
    IF data.filters = {} THEN <<>> ELSE CHOOSE f \in data.filters : TRUE

\* C20.  The request built from a structured people request has one facet
\* filter per entry of its filter map, in the map's order, each naming the
\* entry's field and holding exactly one value, the entry's, with the
\* relation EQUALS; when the map is empty or absent the request has no
\* filter set.
C20_OneEqualsFacetPerEntry ==
    BuiltFromBasicRequest =>
        LET entries == FilterMapOf(fnArgs.input.value)
            built == fnOut.value.filter_
        IN  IF entries = <<>> THEN built = {}
            ELSE \E facets \in built :
                    /\ built = {facets}
                    /\ Len(facets) = Len(entries)
                    /\ \A i \in DOMAIN entries :
                          /\ facets[i].field_name = entries[i][1]
                          /\ Len(facets[i].values) = 1
                          /\ facets[i].values[1].value = entries[i][2]
                          /\ facets[i].values[1].relation_type = "EQUALS"

\* A request was built from a filter map of two entries and has two facet
\* filters.
C20_Witness ==
    /\ BuiltFromBasicRequest
    /\ Len(FilterMapOf(fnArgs.input.value)) = 2
    /\ \E facets \in fnOut.value.filter_ : Len(facets) = 2

-----------------------------------------------------------------------------
(***************************************************************************)
(* The session state after a non-streaming call of ChatGlean               *)
(* (SpecNonStreaming)                                                      *)
(***************************************************************************)

\* The call of ChatGlean._generate / _agenerate has ended.
ChatCallEnded == fnName \in ChatEntryPoints /\ fnOut # NotEnded

\* The response of the call carries a chat id and a tracking token.
CarriesIdAndToken ==
    /\ fnRemote.gives.type = "response"
    /\ Truthy(fnRemote.gives.chatId)
    /\ Truthy(fnRemote.gives.chatSessionTrackingToken)

\* The values of the session state that the instance holds: its field
\* chat_id (chat.py:115) and no other.
HeldSessionState == {chat_id}

\* Both values are attached to the one generation returned.
AttachedToGeneration ==
    /\ Len(fnOut.generations) = 1
    /\ fnOut.generations[1].generation_info.chat_id = fnRemote.gives.chatId
    /\ fnOut.generations[1].generation_info.tracking_token =
          fnRemote.gives.chatSessionTrackingToken

QualifyingMessage(msg) == msg.author = "GLEAN_AI" /\ msg.messageType = "CONTENT"

NoQualifyingMessage ==
    /\ fnRemote.gives.type = "response"
    /\ \A i \in DOMAIN fnRemote.gives.messages :
          ~QualifyingMessage(fnRemote.gives.messages[i])

\* C24.  A non-streaming call of ChatGlean whose response has no message of
\* the assistant with the content type CONTENT, an empty message list
\* included, raises an error and returns no generation.
C24_NoQualifyingMessageRaises ==
    (ChatCallEnded /\ fnRemote.request # NotSent /\ NoQualifyingMessage) =>
        /\ fnOut.status = "raised"
        /\ fnOut.exc = "ValueError"

\* _generate raised for a response whose only message is an update of the
\* assistant.
C24_Witness ==
    /\ fnName = "ChatGlean._generate"
    /\ fnOut.status = "raised"
    /\ fnRemote.request # NotSent
    /\ fnRemote.gives.type = "response"
    /\ Len(fnRemote.gives.messages) = 1
    /\ fnRemote.gives.messages[1].messageType = "UPDATE"

\* C27.  A call of ChatGlean._generate / _agenerate that ends by raising
\* leaves the held chat id as it was before the call.
C27_RaisingCallKeepsChatId ==
    [][(fnName \in ChatEntryPoints /\ fnOut = NotEnded /\ fnOut'.status = "raised")
          => chat_id' = chat_id]_vars

\* _generate raised for a response without a qualifying message that
\* carried the chat id c1, on an instance that holds c0.
C27_Witness ==
    /\ fnName = "ChatGlean._generate"
    /\ fnOut.status = "raised"
    /\ fnRemote.request # NotSent
    /\ fnRemote.gives.type = "response"
    /\ fnRemote.gives.chatId = "c1"
    /\ chat_id = "c0"

-----------------------------------------------------------------------------
(***************************************************************************)
(* The held chat id over the calls of one instance (SpecChat)              *)
(***************************************************************************)

\* C28.  Over the calls on one ChatGlean instance, a held chat id that is
\* not empty is never reset to empty; a step of a streaming call changes the
\* held chat id only when none is held, and then to the chat id of the line
\* of the chunk it yields; and a non-streaming call that returns a
\* generation for a response with a non-empty chat id holds that id
\* afterwards.
C28_HeldChatIdIsKept ==
    [][/\ Truthy(chat_id) => Truthy(chat_id')
       /\ (call'.kind \in StreamKinds /\ Truthy(chat_id)) => chat_id' = chat_id
       /\ (call'.kind \in StreamKinds /\ chat_id' # chat_id)
             => /\ ~Truthy(chat_id)
                /\ Len(chunks') = Len(chunks) + 1
                /\ chat_id' = chunks'[Len(chunks')].generation_info.chat_id
                /\ Truthy(chat_id')
       /\ (call.kind \in GenerateKinds /\ pc = "awaiting"
             /\ result'.status = "returned" /\ Truthy(response'.chatId))
             => chat_id' = response'.chatId]_vars

\* A streaming call on an instance that holds c0 yielded a chunk of a line
\* with the chat id c2 and the instance still holds c0.
C28_Witness ==
    /\ call.kind \in StreamKinds
    /\ pc = "yielded"
    /\ chunks[Len(chunks)].generation_info.chat_id = "c2"
    /\ chat_id = "c0"

-----------------------------------------------------------------------------
(***************************************************************************)
(* The text of the search tool and its argument object (SpecTool)          *)
(***************************************************************************)

\* The last call of the tool reached the retriever, which returned.
RetrieverReturned ==
    toolKind # None /\ toolEnv # NotCalled /\ ~toolEnv.raises

\* C25.  For n >= 1 Documents of the retriever the tool returns n blocks
\* "Result i:", "Title: ...", "URL: ...", "Content: ..." numbered from 1 in
\* the retriever's order, with "No title" / "No URL" for a metadata without
\* them, each line ended by a newline and the blocks (12 pieces each)
\* joined by "\n\n"; for no Document it returns "No results found.".
C25_NumberedBlocks ==
    RetrieverReturned =>
        LET docs == toolEnv.docs
            n == Len(docs)
            text == toolOut.text
        IN  IF n = 0 THEN text = <<"No results found.">>
            ELSE /\ Len(text) = 13 * n - 1
                 /\ \A i \in 1..n :
                       LET o == 13 * (i - 1)
                           md == docs[i].metadata
                       IN  /\ SubSeq(text, o + 1, o + 12) =
                                <<"Result ", ToString(i), ":\n",
                                  "Title: ",
                                  IF "title" \in DOMAIN md THEN md.title ELSE "No title",
                                  "\n",
                                  "URL: ",
                                  IF "url" \in DOMAIN md THEN md.url ELSE "No URL",
                                  "\n",
                                  "Content: ", docs[i].page_content, "\n">>
                           /\ i < n => text[o + 13] = "\n\n"

\* Two Documents, the second without a title, gave two blocks.
C25_Witness ==
    /\ RetrieverReturned
    /\ Len(toolEnv.docs) = 2
    /\ "title" \notin DOMAIN toolEnv.docs[2].metadata
    /\ toolOut.text[1] = "Result "
    /\ toolOut.text[14] = "Result "
    /\ toolOut.text[18] = "No title"

\* C29 as stated.  A call of the tool leaves the caller's argument object
\* as it was, and a call made with the object of a call that reached the
\* retriever passes the retriever the same query text and keyword
\* parameters again.
C29_ArgumentUnchanged ==
    [][/\ toolArg' = toolArg
       /\ toolSeen # <<>> =>
             /\ Len(toolSeen') = Len(toolSeen) + 1
             /\ toolSeen'[Len(toolSeen')] = toolSeen[Len(toolSeen)]]_vars

-----------------------------------------------------------------------------
(***************************************************************************)
(* The payload of the search retriever (SpecSearch)                        *)
(***************************************************************************)

\* The call has sent a payload.
PayloadSent == fnName \in SearchEntryPoints /\ fnRemote.request # NotSent

\* The caller gave a page size, and a result-count hint.
ExplicitPageSize ==
    "page_size" \in DOMAIN fnArgs.kwargs /\ fnArgs.kwargs["page_size"] # PyNone
ResultCountHint == "k" \in DOMAIN fnArgs.kwargs

Larger(a, b) == IF a >= b THEN a ELSE b

\* C21 as stated.  The page size of the payload is the largest of the
\* explicit value, the default and the floor when a result-count hint is
\* given; else the explicit value when one is given; else it is left out.
C21_PageSizeRule ==
    PayloadSent =>
        LET payload == fnRemote.request.data
        IN  IF ResultCountHint
            THEN /\ "pageSize" \in DOMAIN payload
                 /\ payload["pageSize"].int =
                       IF ExplicitPageSize
                       THEN Larger(fnArgs.kwargs["page_size"].int, DEFAULT_PAGE_SIZE)
                       ELSE DEFAULT_PAGE_SIZE
            ELSE IF ExplicitPageSize
            THEN /\ "pageSize" \in DOMAIN payload
                 /\ payload["pageSize"] = fnArgs.kwargs["page_size"]
            ELSE "pageSize" \notin DOMAIN payload

\* C22 as stated.  Every keyword argument whose name is no search parameter
\* is in the payload under its name with its value.
C22_UnknownKwargsPassedThrough ==
    PayloadSent =>
        \A key \in DOMAIN fnArgs.kwargs :
            ~IsSearchField(key) =>
                /\ key \in DOMAIN fnRemote.request.data
                /\ fnRemote.request.data[key] = fnArgs.kwargs[key]

-----------------------------------------------------------------------------
(***************************************************************************)
(* Calls that run at the same time (SpecConcurrent)                        *)
(***************************************************************************)

\* The positions of a call between the receipt of its response and its
\* end: it is mapping the response.
InsideMapping(task) == task.pc \notin {"ready", "awaiting", "done"}

C30_OwnChatIdInMetadata ==
    (\A t \in Tasks :
        /\ tasks[t].kind \in GenerateKinds
        /\ tasks[t].response.type = "response" => Truthy(tasks[t].response.chatId))
    => \A t \in Tasks :
          (tasks[t].pc = "done" /\ tasks[t].result.status = "returned")
             => tasks[t].result.generations[1].generation_info.chat_id =
                   tasks[t].response.chatId

=============================================================================
